---- MODULE Spec2Model ----
(***************************************************************************)
(* Verification model of the token dashboard front end:                    *)
(*   - App: the wsWorker.onmessage handler that owns the token store       *)
(*     (CONNECTION_STATUS, BATCH_PROCESSED);                               *)
(*   - TokenEventsList: the filteredTokens memo (filter, sort, truncate).  *)
(* JavaScript strings are sequences of one-character strings, objects are  *)
(* records whose DOMAIN is the set of own properties, and the property     *)
(* order of tokens.items is kept explicitly (Object.values order).         *)
(***************************************************************************)
EXTENDS Integers, Sequences, FiniteSets, TLC

VARIABLES
    tokens,                    \* App store: [items : key -> Token, keys : Object.keys order]
    isConnected,               \* App signal
    connectionError,           \* App signal
    isLoading,                 \* App signal
    hasReceivedInitialTokens,  \* App signal
    lastMsg,                   \* history: the worker message processed last
    prev,                      \* history: store and isConnected before that message; same: it repeats the one before
    log,                       \* history: records of all batches merged since the store was last emptied
    posted,                    \* messages posted to wsWorker while handling lastMsg
    filters,                   \* TokenEventsList signal: FilterState
    filteredTokens,            \* TokenEventsList memo: [status : pending, ok or TypeError; value : the sequence]
    trend,                     \* a call of calculateTrend: [history, type, result]
    now,                       \* Date.now(), in milliseconds since the page was loaded
    storage,                   \* localStorage: address -> the entry token_history_<address>
    cards,                     \* TokenEventCard per address: [phase, history, chartData, isLoading, error, startedAt (when the pending abort timer was set), requests of the disposed cards]
    lookups,                   \* history: the cache lookups of the last step
    started,                   \* history: the history fetches started by the last step
    settled,                   \* history: the fetch the last step completed, and the caches before it
    tokenHistories,            \* TokenEventsList signal: address -> [history, storedAt (history: when it was set)]
    tokenTrends,               \* TokenEventsList signal: address -> [liquidity, holders]
    listFetches,               \* the fetchTokenHistory calls that have not ended: [address, phase] each
    window,                    \* row indices virtualizer().getVirtualItems() returns
    expandedTokens,            \* TokenEventsList signal: set of addresses
    measuredHeights,           \* TokenEventsList signal: row index -> height
    measuredFor,               \* history: row index -> address of the row when the height was recorded
    scrollTop,                 \* scrollContainerRef.scrollTop
    smooth,                    \* the offset the smooth scroll under way is heading for (NoScroll when there is none)
    raf,                       \* callbacks given to requestAnimationFrame, not yet run
    lastOp,                    \* history: the handler that ran last and what it found: [name, heights recorded, scroll offset read, callbacks pending before, offset after the callback, restores after it, address, expansion set before]
    resetPending,              \* history: no user scroll, row toggle or scroll of a toggle since the last updateFilters
    savedFilters,              \* localStorage: the entry tokenListFilters
    historyCache,              \* localStorage: the entry tokenHistoryCache (the code reads it and never writes it)
    viewMode,                  \* TokenEventsList signal and its localStorage entry token_list_view_mode
    throttle                   \* a throttled function: [wait, previous, timeout, timers of the event loop, history of the last call]

vars == <<tokens, isConnected, connectionError, isLoading, hasReceivedInitialTokens,
          lastMsg, prev, log, posted, filters, filteredTokens, trend,
          now, storage, cards, lookups, started, settled,
          tokenHistories, tokenTrends, listFetches, window, expandedTokens,
          measuredHeights, measuredFor, scrollTop, smooth, raf, lastOp, resetPending,
          savedFilters, historyCache, viewMode, throttle>>

appVars == <<tokens, isConnected, connectionError, isLoading, hasReceivedInitialTokens,
             lastMsg, prev, log, posted>>

listVars == <<filters, filteredTokens>>

trendVars == <<trend>>

cardVars == <<now, storage, cards, lookups, started, settled>>

historyVars == <<tokenHistories, tokenTrends, listFetches, window>>

viewVars == <<expandedTokens, measuredHeights, measuredFor, scrollTop, smooth, raf, lastOp, resetPending>>

viewVarsButOp == <<expandedTokens, measuredHeights, measuredFor, scrollTop, smooth, raf, resetPending>>

otherVars == <<savedFilters, historyCache, viewMode, throttle>>

\* the state of the parts a specification does not exercise
extVars == <<trendVars, cardVars, historyVars, viewVars, otherVars>>

\* no call of calculateTrend is being followed
NoTrend == [history |-> <<>>, type |-> "none", result |-> "none"]

TrendIdle == trend = NoTrend

\* addresses of the tokens whose history is followed
CardAddrs == {<<"0", "x", "A", "1">>, <<"0", "x", "b", "2">>}

\* token.tokenAddress of a record that has none (undefined)
NoAddress == <<>>

\* the values of props.token.tokenAddress of the cards: the entry of the
\* card of a record without address is token_history_undefined
CardKeys == CardAddrs \cup {NoAddress}

\* localStorage.getItem returns null
Absent == [kind |-> "absent", data |-> <<>>, timestamp |-> 0]

\* a TokenEventCard that is not mounted (its signals hold their initial
\* values); disposed: the requests of the cards of the address that were
\* disposed before their onMount had ended, each [phase, startedAt]
Unmounted == [phase |-> "unmounted", history |-> <<>>, chartData |-> <<>>,
              isLoading |-> TRUE, error |-> "null", startedAt |-> 0,
              disposed |-> <<>>]

NothingSettled == [by |-> "none", address |-> <<>>, failed |-> FALSE,
                   fetched |-> FALSE, series |-> <<>>,
                   storage |-> [a \in CardKeys |-> Absent],
                   histories |-> <<>>, trends |-> <<>>]

CardIdle ==
    /\ now = 0
    /\ storage = [a \in CardKeys |-> Absent]
    /\ cards = [a \in CardKeys |-> Unmounted]
    /\ lookups = {}
    /\ started = {}
    /\ settled = NothingSettled

\* a handler that is not followed ran last
OtherOp == [name |-> "other", heights |-> 0, offset |-> 0, queued |-> 0, restored |-> 0,
            later |-> 0, address |-> <<>>, before |-> {}]

\* no smooth scroll is under way
NoScroll == -1

\* the signals of the list while no TokenEventsList exists: new Map(), new
\* Set(), no virtual item
ListIdle ==
    /\ tokenHistories = <<>>
    /\ tokenTrends = <<>>
    /\ listFetches = <<>>
    /\ window = {}
    /\ expandedTokens = {}
    /\ measuredHeights = <<>>
    /\ measuredFor = <<>>
    /\ scrollTop = 0
    /\ smooth = NoScroll
    /\ raf = <<>>
    /\ lastOp = OtherOp
    /\ resetPending = FALSE

\* localStorage.getItem(STORAGE_KEY) === null
NoSnapshot == [kind |-> "absent", value |-> [none |-> TRUE]]

\* localStorage.getItem(HISTORY_CACHE_KEY) === null
NoCache == [kind |-> "absent", value |-> [none |-> TRUE]]

\* no timer of a throttled function
NoTimer == [set |-> FALSE, arg |-> 0, at |-> 0]

\* no throttled function is being followed
NoThrottle == [wait |-> 0, previous |-> 0, timeout |-> NoTimer, timers |-> {},
               calls |-> 0, op |-> "none", arg |-> 0, before |-> NoTimer,
               early |-> FALSE, ran |-> FALSE, ranArg |-> 0, last |-> -1, gap |-> -1]

\* localStorage.getItem(VIEW_MODE_STORAGE_KEY) || 'list'
OtherIdle ==
    /\ savedFilters = NoSnapshot
    /\ historyCache = NoCache
    /\ viewMode = "list"
    /\ throttle = NoThrottle

ExtIdle == TrendIdle /\ CardIdle /\ ListIdle /\ OtherIdle

----------------------------------------------------------------------------
(* Bounds of the model *)

MaxBatch == 2       \* records per BATCH_PROCESSED message
MaxLog == 4         \* records merged between two store clears
MaxListTokens == 3  \* records of the batch that fills the store shown by the list
MaxHistory == 3     \* points of a history given to calculateTrend
MaxSeries == 2      \* points of a fetched history series
MaxClock == 300000  \* milliseconds followed
MaxFetches == 2     \* fetchTokenHistory calls awaiting their response
MaxRaf == 1         \* animation-frame callbacks pending when another is requested
MaxThrottleCalls == 3  \* calls of the throttled function
MaxThrottleTime == 6   \* milliseconds the clock advances while the throttled function is followed
MaxRows == 2        \* rows of the list followed by the virtualizer
MaxDisposed == 1    \* requests of disposed cards of one address that have not ended

----------------------------------------------------------------------------
(* JavaScript strings *)

Lower(c) ==
    CASE c = "A" -> "a"
      [] c = "B" -> "b"
      [] c = "C" -> "c"
      [] c = "X" -> "x"
      [] OTHER -> c

toLowerCase(s) == [i \in 1..Len(s) |-> Lower(s[i])]

includes(s, q) == \E i \in 0..(Len(s) - Len(q)) : SubSeq(s, i + 1, i + Len(q)) = q

endsWith(s, q) == Len(s) >= Len(q) /\ SubSeq(s, Len(s) - Len(q) + 1, Len(s)) = q

\* String(undefined): the property key used for a record without tokenAddress
Undefined == <<"u", "n", "d", "e", "f", "i", "n", "e", "d">>

ZeroAddress == <<"0", "x">> \o [i \in 1..40 |-> "0"]

Has(obj, f) == f \in DOMAIN obj

\* JS truthiness of a boolean property that may be absent
Truthy(obj, f) == Has(obj, f) /\ obj[f] = TRUE

\* obj.f > n for a numeric property that may be absent (undefined > n is false)
Above(obj, f, n) == Has(obj, f) /\ obj[f] > n

Without(obj, f) == [g \in DOMAIN obj \ {f} |-> obj[g]]

With(obj, f, v) == [g \in DOMAIN obj \cup {f} |-> IF g = f THEN v ELSE obj[g]]

----------------------------------------------------------------------------
(* Token records (type Token): the properties the handler and the list read *)

Addr1 == <<"0", "x", "A", "1">>
Addr2 == <<"0", "x", "b", "2">>
Addr3 == <<"0", "x", "c", "3">>
OwnerAddr == <<"0", "x", "d", "e">>

\* gpLpHolders is a JSON text; json = "array" when it parses to an array of
\* holders, "invalid" otherwise. percent is Number(holder.percent) * 100.
LockedLp == [json |-> "array", holders |-> <<[is_locked |-> TRUE, percent |-> 50],
                                             [is_locked |-> TRUE, percent |-> 40]>>]
PartLockedLp == [json |-> "array", holders |-> <<[is_locked |-> TRUE, percent |-> 50],
                                                 [is_locked |-> FALSE, percent |-> 50]>>]
InvalidLp == [json |-> "invalid"]

DangerFlags == {"gpCanTakeBackOwnership", "gpHiddenOwner", "gpOwnerChangeBalance",
                "gpIsAirdropScam", "gpHoneypotWithSameCreator", "gpFakeToken"}

WarningFlags == {"gpIsProxy", "gpIsMintable", "gpSlippageModifiable",
                 "gpPersonalSlippageModifiable", "gpCannotSellAll",
                 "gpTradingCooldown", "gpTransferPausable"}

SignalFlags == {"hpIsHoneypot", "gpIsOpenSource"} \cup DangerFlags \cup WarningFlags

BaseToken ==
    [tokenAddress |-> Addr1, tokenName |-> <<"A", "b">>, tokenSymbol |-> <<"X">>,
     hpIsHoneypot |-> FALSE,
     gpCanTakeBackOwnership |-> FALSE, gpHiddenOwner |-> FALSE,
     gpOwnerChangeBalance |-> FALSE, gpIsAirdropScam |-> FALSE,
     gpHoneypotWithSameCreator |-> FALSE, gpFakeToken |-> FALSE,
     gpIsOpenSource |-> TRUE,
     gpIsProxy |-> FALSE, gpIsMintable |-> FALSE, gpSlippageModifiable |-> FALSE,
     gpPersonalSlippageModifiable |-> FALSE, gpCannotSellAll |-> FALSE,
     gpTradingCooldown |-> FALSE, gpTransferPausable |-> FALSE,
     gpBuyTax |-> 0, gpSellTax |-> 0,
     gpOwnerAddress |-> ZeroAddress, gpLpHolders |-> LockedLp,
     gpHolderCount |-> 100, hpLiquidityAmount |-> 500, tokenAgeHours |-> 1]

\* Records the worker can deliver to the App handler
AppPool ==
    { BaseToken,
      With([BaseToken EXCEPT !.hpIsHoneypot = TRUE], "riskLevel", "safe"),
      Without([BaseToken EXCEPT !.tokenAddress = Addr2, !.gpIsMintable = TRUE],
              "gpLpHolders"),
      [BaseToken EXCEPT !.tokenAddress = Addr2, !.gpHolderCount = 50],
      Without([BaseToken EXCEPT !.gpFakeToken = TRUE], "tokenAddress") }

\* Every combination of the risk signals, for one record
SignalTokens ==
    { [f \in DOMAIN BaseToken |->
          IF f \in SignalFlags THEN f \in S
          ELSE IF f = "gpBuyTax" THEN bt
          ELSE IF f = "gpSellTax" THEN st
          ELSE BaseToken[f]] :
      S \in SUBSET SignalFlags, bt \in {10, 11}, st \in {10, 11} }

RECURSIVE SeqsUpTo(_, _)
SeqsUpTo(S, n) ==
    IF n = 0 THEN {<<>>}
    ELSE LET shorter == SeqsUpTo(S, n - 1)
         IN shorter \cup {Append(q, x) : q \in {r \in shorter : Len(r) = n - 1}, x \in S}

----------------------------------------------------------------------------
(* App: wsWorker.onmessage *)

\* Mutant: the warning signals are tested before the ownership signals
riskLevelWarningFirstMutant(token) ==
    IF Truthy(token, "hpIsHoneypot") THEN "danger"
    ELSE IF \/ \E f \in WarningFlags : Truthy(token, f)
            \/ (Above(token, "gpBuyTax", 10) \/ Above(token, "gpSellTax", 10))
         THEN "warning"
    ELSE IF (\E f \in DangerFlags : Truthy(token, f)) \/ ~Truthy(token, "gpIsOpenSource")
         THEN "danger"
    ELSE "safe"

\* let riskLevel = 'safe'; if (token.hpIsHoneypot) ... else if ... else if ...
riskLevel(token) ==
    IF Truthy(token, "hpIsHoneypot") THEN "danger"
    ELSE IF \/ Truthy(token, "gpCanTakeBackOwnership")
            \/ Truthy(token, "gpHiddenOwner")
            \/ Truthy(token, "gpOwnerChangeBalance")
            \/ Truthy(token, "gpIsAirdropScam")
            \/ Truthy(token, "gpHoneypotWithSameCreator")
            \/ Truthy(token, "gpFakeToken")
            \/ ~Truthy(token, "gpIsOpenSource")
         THEN "danger"
    ELSE IF \/ Truthy(token, "gpIsProxy")
            \/ Truthy(token, "gpIsMintable")
            \/ Truthy(token, "gpSlippageModifiable")
            \/ Truthy(token, "gpPersonalSlippageModifiable")
            \/ Truthy(token, "gpCannotSellAll")
            \/ Truthy(token, "gpTradingCooldown")
            \/ Truthy(token, "gpTransferPausable")
            \/ (Above(token, "gpBuyTax", 10) \/ Above(token, "gpSellTax", 10))
         THEN "warning"
    ELSE "safe"

\* Mutant: { riskLevel, ...token }, an inbound riskLevel survives
processedTokenKeepInboundMutant(token) ==
    IF Has(token, "riskLevel") THEN token ELSE With(token, "riskLevel", riskLevel(token))

\* { ...token, riskLevel }
processedToken(token) == With(token, "riskLevel", riskLevel(token))

\* the property key of state.items[token.tokenAddress]
KeyOf(token) == IF Has(token, "tokenAddress") THEN token.tokenAddress ELSE Undefined

EmptyStore == [items |-> <<>>, keys |-> <<>>]

\* Mutant: the risk level is computed from the record being replaced
StoreTokenStaleRiskMutant(state, token) ==
    LET k == KeyOf(token)
        risk == IF k \in DOMAIN state.items THEN riskLevel(state.items[k])
                ELSE riskLevel(token)
    IN [items |-> [x \in DOMAIN state.items \cup {k} |->
                      IF x = k THEN With(token, "riskLevel", risk) ELSE state.items[x]],
        keys |-> IF k \in DOMAIN state.items THEN state.keys ELSE Append(state.keys, k)]

\* Mutant: { ...state.items[key], ...processedToken }, a field-wise merge
StoreTokenPartialMergeMutant(state, token) ==
    LET k == KeyOf(token)
        p == processedToken(token)
        old == IF k \in DOMAIN state.items THEN state.items[k] ELSE p
    IN [items |-> [x \in DOMAIN state.items \cup {k} |->
                      IF x = k
                      THEN [f \in DOMAIN old \cup DOMAIN p |->
                               IF f \in DOMAIN p THEN p[f] ELSE old[f]]
                      ELSE state.items[x]],
        keys |-> IF k \in DOMAIN state.items THEN state.keys ELSE Append(state.keys, k)]

\* state.items[token.tokenAddress] = processedToken
StoreToken(state, token) ==
    LET k == KeyOf(token)
    IN [items |-> [x \in DOMAIN state.items \cup {k} |->
                      IF x = k THEN processedToken(token) ELSE state.items[x]],
        keys |-> IF k \in DOMAIN state.items THEN state.keys ELSE Append(state.keys, k)]

\* produce((state) => data.forEach(...))
RECURSIVE MergeBatch(_, _)
MergeBatch(state, data) ==
    IF data = <<>> THEN state
    ELSE MergeBatch(StoreToken(state, Head(data)), Tail(data))

\* Object.values(tokens.items)
ObjectValues(state) == [i \in 1..Len(state.keys) |-> state.items[state.keys[i]]]

NoMsg == [type |-> "none", data |-> <<>>]
NoData == [connected |-> FALSE, error |-> "null", absent |-> TRUE]
StatusData == { [connected |-> TRUE, error |-> "null", absent |-> FALSE],
                [connected |-> FALSE, error |-> "null", absent |-> FALSE],
                [connected |-> FALSE, error |-> "closed", absent |-> FALSE],
                NoData }

Remember(msg) ==
    /\ lastMsg' = msg
    /\ prev' = [tokens |-> tokens, isConnected |-> isConnected, same |-> (msg.type = lastMsg.type /\ msg.data = lastMsg.data)]

\* Mutant: the store is cleared on every status that reports no connection
lostConnectionAnyMutant(wasConnected, data) == ~data.connected

\* if (wasConnected && !data.connected)
lostConnection(wasConnected, data) == wasConnected /\ ~data.connected

\* Mutant: the initial tokens are requested on every status that reports a connection
justConnectedAnyMutant(wasConnected, data) == data.connected

\* if (!wasConnected && data.connected)
justConnected(wasConnected, data) == ~wasConnected /\ data.connected

----------------------------------------------------------------------------
(* TokenEventsList: the filteredTokens memo *)

Age == <<"a", "g", "e">>
Holders == <<"h", "o", "l", "d", "e", "r", "s">>
Liquidity == <<"l", "i", "q", "u", "i", "d", "i", "t", "y">>
SafetyScore == <<"s", "a", "f", "e", "t", "y", "S", "c", "o", "r", "e">>
AscSuffix == <<"_", "a", "s", "c">>

\* the <option> values of the sort <select>
SortOptions == {Age, Age \o AscSuffix, Liquidity, Liquidity \o AscSuffix,
                Holders, Holders \o AscSuffix, SafetyScore}

\* s.replace(q, ''): the first occurrence of q removed
replaceWithEmpty(s, q) ==
    IF ~includes(s, q) THEN s
    ELSE LET i == CHOOSE n \in 0..(Len(s) - Len(q)) :
                     /\ SubSeq(s, n + 1, n + Len(q)) = q
                     /\ \A m \in 0..(n - 1) : SubSeq(s, m + 1, m + Len(q)) # q
         IN SubSeq(s, 1, i) \o SubSeq(s, i + Len(q) + 1, Len(s))

getRiskScore(token) ==
    IF ~Has(token, "riskLevel") THEN 0
    ELSE CASE token.riskLevel = "safe" -> 2
           [] token.riskLevel = "warning" -> 1
           [] token.riskLevel = "danger" -> 0
           [] OTHER -> 0

\* lpHolders.reduce((acc, holder) => acc + (holder.is_locked ? Number(holder.percent) * 100 : 0), 0)
RECURSIVE totalLocked(_)
totalLocked(lpHolders) ==
    IF lpHolders = <<>> THEN 0
    ELSE LET holder == lpHolders[Len(lpHolders)]
         IN totalLocked(SubSeq(lpHolders, 1, Len(lpHolders) - 1))
            + (IF holder.is_locked THEN holder.percent ELSE 0)

\* the try/catch of hideUnlockedLiquidity: TRUE when the token is filtered out
unlockedLiquidity(token) ==
    LET text == IF Has(token, "gpLpHolders") THEN token.gpLpHolders
                ELSE [json |-> "array", holders |-> <<>>]
    IN IF text.json = "array" THEN totalLocked(text.holders) < 90 ELSE TRUE

\* the filter callback up to the search query: FALSE when it has returned false
passesToggles(token, currentFilters) ==
    /\ ~(currentFilters.hideHoneypots /\ Truthy(token, "hpIsHoneypot"))
    /\ ~(currentFilters.showOnlyHoneypots /\ ~Truthy(token, "hpIsHoneypot"))
    /\ ~(currentFilters.hideDanger /\ Has(token, "riskLevel") /\ token.riskLevel = "danger")
    /\ ~(currentFilters.hideWarning /\ Has(token, "riskLevel") /\ token.riskLevel = "warning")
    /\ ~(currentFilters.showOnlySafe /\ ~(Has(token, "riskLevel") /\ token.riskLevel = "safe"))
    /\ ~(currentFilters.hideNotRenounced
         /\ ~(Has(token, "gpOwnerAddress") /\ token.gpOwnerAddress = ZeroAddress))
    /\ ~(currentFilters.hideUnlockedLiquidity /\ unlockedLiquidity(token))
    /\ ~(currentFilters.minHolders > 0 /\ token.gpHolderCount < currentFilters.minHolders)
    /\ ~(currentFilters.minLiquidity > 0
         /\ token.hpLiquidityAmount < currentFilters.minLiquidity)

\* name, symbol, address tested left to right; reading .toLowerCase() of an
\* absent property throws a TypeError
searchOutcome(token, searchQuery) ==
    LET query == toLowerCase(searchQuery)
    IN IF ~Has(token, "tokenName") THEN "throw"
       ELSE IF includes(toLowerCase(token.tokenName), query) THEN "keep"
       ELSE IF ~Has(token, "tokenSymbol") THEN "throw"
       ELSE IF includes(toLowerCase(token.tokenSymbol), query) THEN "keep"
       ELSE IF ~Has(token, "tokenAddress") THEN "throw"
       ELSE IF includes(toLowerCase(token.tokenAddress), query) THEN "keep"
       ELSE "drop"

\* the callback of result.filter: "keep", "drop" or "throw"
filterOutcome(token, currentFilters) ==
    IF ~passesToggles(token, currentFilters) THEN "drop"
    ELSE IF currentFilters.searchQuery # <<>>
         THEN searchOutcome(token, currentFilters.searchQuery)
    ELSE "keep"

RECURSIVE SelectKept(_, _)
SelectKept(result, currentFilters) ==
    IF result = <<>> THEN <<>>
    ELSE LET rest == SelectKept(Tail(result), currentFilters)
         IN IF filterOutcome(Head(result), currentFilters) = "keep"
            THEN <<Head(result)>> \o rest ELSE rest

\* Mutant: the age comparison is written like the other fields
compareAgeLikeOthersMutant(a, b, sortBy) ==
    LET asc == endsWith(sortBy, AscSuffix)
        direction == IF asc THEN 1 ELSE -1
        field == IF asc THEN replaceWithEmpty(sortBy, AscSuffix) ELSE sortBy
    IN CASE field = Age -> (a.tokenAgeHours - b.tokenAgeHours) * direction
         [] field = Holders -> (a.gpHolderCount - b.gpHolderCount) * direction
         [] field = Liquidity -> (a.hpLiquidityAmount - b.hpLiquidityAmount) * direction
         [] field = SafetyScore -> (getRiskScore(a) - getRiskScore(b)) * direction
         [] OTHER -> 0

\* the comparator of result.sort
compare(a, b, sortBy) ==
    LET asc == endsWith(sortBy, AscSuffix)
        direction == IF asc THEN 1 ELSE -1
        field == IF asc THEN replaceWithEmpty(sortBy, AscSuffix) ELSE sortBy
    IN CASE field = Age -> (b.tokenAgeHours - a.tokenAgeHours) * direction
         [] field = Holders -> (a.gpHolderCount - b.gpHolderCount) * direction
         [] field = Liquidity -> (a.hpLiquidityAmount - b.hpLiquidityAmount) * direction
         [] field = SafetyScore -> (getRiskScore(a) - getRiskScore(b)) * direction
         [] OTHER -> 0

\* Mutant: an element is moved in front of the elements that compare equal
RECURSIVE insertUnstableMutant(_, _, _)
insertUnstableMutant(sorted, x, sortBy) ==
    IF sorted = <<>> THEN <<x>>
    ELSE LET n == Len(sorted)
         IN IF compare(sorted[n], x, sortBy) >= 0
            THEN Append(insertUnstableMutant(SubSeq(sorted, 1, n - 1), x, sortBy), sorted[n])
            ELSE Append(sorted, x)

\* Array.prototype.sort is stable: x goes behind every element that does not
\* compare greater than it
RECURSIVE insert(_, _, _)
insert(sorted, x, sortBy) ==
    IF sorted = <<>> THEN <<x>>
    ELSE LET n == Len(sorted)
         IN IF compare(sorted[n], x, sortBy) > 0
            THEN Append(insert(SubSeq(sorted, 1, n - 1), x, sortBy), sorted[n])
            ELSE Append(sorted, x)

RECURSIVE sort(_, _)
sort(result, sortBy) ==
    IF result = <<>> THEN <<>>
    ELSE LET n == Len(result)
         IN insert(sort(SubSeq(result, 1, n - 1), sortBy), result[n], sortBy)

\* result.slice(0, maxRecords), maxRecords >= 0
slice(result, maxRecords) ==
    SubSeq(result, 1, IF maxRecords < Len(result) THEN maxRecords ELSE Len(result))

TypeError == [status |-> "TypeError", value |-> <<>>]

\* the body of the filteredTokens memo
project(propsTokens, currentFilters) ==
    IF \E i \in 1..Len(propsTokens) :
          filterOutcome(propsTokens[i], currentFilters) = "throw"
    THEN TypeError
    ELSE [status |-> "ok",
          value |-> slice(sort(SelectKept(propsTokens, currentFilters),
                               currentFilters.sortBy),
                          currentFilters.maxRecords)]

DefaultFilters ==
    [minHolders |-> 0, minLiquidity |-> 0, hideHoneypots |-> FALSE,
     showOnlyHoneypots |-> FALSE, hideDanger |-> FALSE, hideWarning |-> FALSE,
     showOnlySafe |-> FALSE, hideNotRenounced |-> FALSE,
     hideUnlockedLiquidity |-> FALSE, searchQuery |-> <<>>,
     sortBy |-> Age, sortDirection |-> "desc", maxRecords |-> 50,
     hideStagnantHolders |-> FALSE, hideStagnantLiquidity |-> FALSE,
     stagnantRecordCount |-> 10]

\* no TokenEventsList exists: the memo has no value
Pending == [status |-> "pending", value |-> <<>>]

\* the value is a complete FilterState
CompleteFilterState(value) == DOMAIN value = DOMAIN DefaultFilters

\* What the memo reads from a FilterState that lacks properties: undefined,
\* which the tests of the filter take as false, 0 or the empty string, and
\* slice(0, undefined) keeps every record
readFilters(propsTokens, f) ==
    [g \in DOMAIN DefaultFilters |->
        IF Has(f, g) THEN f[g]
        ELSE IF g = "maxRecords" THEN Len(propsTokens)
        ELSE DefaultFilters[g]]

\* The filteredTokens memo evaluated with the FilterState the signal holds,
\* which getSavedFilters may have taken from a snapshot that is not a
\* FilterState: null throws at the first property read, and a value without
\* sortBy throws in the comparator (sortBy.endsWith), which sort calls when
\* two records or more are kept
evaluate(propsTokens, f) ==
    IF CompleteFilterState(f) THEN project(propsTokens, f)
    ELSE IF Has(f, "isNull") THEN TypeError
    ELSE LET read == readFilters(propsTokens, f)
         IN IF project(propsTokens, read).status = "TypeError" THEN TypeError
            ELSE IF ~Has(f, "sortBy") /\ Len(SelectKept(propsTokens, read)) >= 2
                 THEN TypeError
            ELSE project(propsTokens, read)

\* <Show when={!isLoading() && hasReceivedInitialTokens()}> of App has created
\* the TokenEventsList
listMounted == ~isLoading /\ hasReceivedInitialTokens

\* the list is shown: it was created and its memo holds a value
listShown == listMounted /\ filteredTokens.status = "ok"

InitApp ==
    /\ tokens = EmptyStore
    /\ isConnected = FALSE
    /\ connectionError = "null"
    /\ isLoading = TRUE
    /\ hasReceivedInitialTokens = FALSE
    /\ lastMsg = NoMsg
    /\ prev = [tokens |-> EmptyStore, isConnected |-> FALSE, same |-> FALSE]
    /\ log = <<>>
    /\ posted = <<"INIT">>
    /\ filters = DefaultFilters
    /\ filteredTokens = Pending

\* Records shown by the list: they differ in every property a filter or a
\* sort key reads, tie on some sort keys, and one has no address
Query == <<"a", "B">>
List1 == [BaseToken EXCEPT !.tokenName = <<"x", "A", "b">>]
List2 == [BaseToken EXCEPT !.tokenAddress = Addr2, !.tokenName = <<"C">>,
                           !.tokenSymbol = <<"A", "B">>, !.hpIsHoneypot = TRUE,
                           !.gpOwnerAddress = OwnerAddr, !.gpLpHolders = PartLockedLp,
                           !.gpHolderCount = 50, !.hpLiquidityAmount = 2000]
List3 == [BaseToken EXCEPT !.tokenAddress = <<"0", "x", "A", "b">>, !.tokenName = <<"C">>,
                           !.gpIsMintable = TRUE, !.gpLpHolders = InvalidLp,
                           !.tokenAgeHours = 3]
List4 == Without([BaseToken EXCEPT !.tokenAddress = Addr3, !.tokenName = <<"C">>,
                                   !.gpHolderCount = 10, !.hpLiquidityAmount = 10,
                                   !.tokenAgeHours = 2], "gpLpHolders")
List5 == Without([BaseToken EXCEPT !.tokenName = <<"C">>, !.gpFakeToken = TRUE,
                                   !.gpHolderCount = 50, !.tokenAgeHours = 2],
                 "tokenAddress")

\* orders in which the worker can deliver them
ListOrders == { <<List1, List2, List3, List4, List5>>,
                <<List5, List4, List3, List2, List1>>,
                <<List3, List1, List5, List2, List4>>,
                <<List2, List4, List1, List5, List3>> }

\* FilterState values: the UI setters and a persisted snapshot reach each of them
FilterStates ==
    { [DefaultFilters EXCEPT
          !.hideHoneypots = hh, !.showOnlyHoneypots = oh, !.hideDanger = hd,
          !.hideWarning = hw, !.showOnlySafe = os, !.hideNotRenounced = nr,
          !.hideUnlockedLiquidity = ul, !.minHolders = mh, !.minLiquidity = ml,
          !.searchQuery = q, !.sortBy = sb, !.sortDirection = sd, !.maxRecords = mr] :
      hh \in BOOLEAN, oh \in BOOLEAN, hd \in BOOLEAN, hw \in BOOLEAN, os \in BOOLEAN,
      nr \in BOOLEAN, ul \in BOOLEAN, mh \in {0, 60}, ml \in {0, 1000},
      q \in {<<>>, Query}, sb \in SortOptions \cup {SafetyScore \o AscSuffix},
      sd \in {"asc", "desc"}, mr \in {1, 50} }

----------------------------------------------------------------------------
(* TokenEventsList: calculateTrend *)

\* Metric values are JavaScript numbers; the model keeps the multiples of
\* 1/Scale (binary fractions, on which the floating-point sums, means and
\* products of calculateTrend are exact), a value v standing for v/Scale.
Scale == 32

\* const threshold = 0.05, as the fraction num/den
threshold == [num |-> 1, den |-> 20]

RECURSIVE Sum(_)
Sum(s) == IF Len(s) = 0 THEN 0 ELSE Head(s) + Sum(Tail(s))

Abs(n) == IF n < 0 THEN -n ELSE n

\* Mutant: the comparator is b.timestamp - a.timestamp
RECURSIVE insertByTimestampDescendingMutant(_, _)
insertByTimestampDescendingMutant(sorted, record) ==
    IF Len(sorted) = 0 THEN <<record>>
    ELSE IF record.timestamp - sorted[Len(sorted)].timestamp > 0
         THEN Append(insertByTimestampDescendingMutant(
                         SubSeq(sorted, 1, Len(sorted) - 1), record),
                     sorted[Len(sorted)])
         ELSE Append(sorted, record)

\* one step of [...history].sort((a, b) => a.timestamp - b.timestamp):
\* record goes after the sorted records it does not precede
RECURSIVE insertByTimestamp(_, _)
insertByTimestamp(sorted, record) ==
    IF Len(sorted) = 0 THEN <<record>>
    ELSE IF sorted[Len(sorted)].timestamp - record.timestamp > 0
         THEN Append(insertByTimestamp(SubSeq(sorted, 1, Len(sorted) - 1), record),
                     sorted[Len(sorted)])
         ELSE Append(sorted, record)

RECURSIVE sortedHistory(_)
sortedHistory(history) ==
    IF Len(history) = 0 THEN <<>>
    ELSE insertByTimestamp(sortedHistory(SubSeq(history, 1, Len(history) - 1)),
                           history[Len(history)])

\* the property read for y
metricField(type) == IF type = "liquidity" THEN "totalLiquidity" ELSE "holderCount"

\* Mutant: x is the wall-clock time of the point, not its index
xPointsWallClockMutant(data) == [i \in 1..Len(data) |-> data[i].timestamp]

\* const xPoints = data.map((_, i) => i)
xPoints(data) == [i \in 1..Len(data) |-> i - 1]

\* const yPoints = data.map(d => d.y); an absent metric reads as 0 here and
\* makes the slope NaN (see slope)
yPoints(data, type) ==
    [i \in 1..Len(data) |->
        IF Has(data[i], metricField(type)) THEN data[i][metricField(type)] ELSE 0]

\* The slope sum((x - xMean)(y - yMean)) / sum((x - xMean)^2) as the fraction
\* num / (den * Scale), both sums multiplied by n^2 to stay in the integers;
\* nan: some y is undefined, so that yMean and the slope are NaN
slope(data, type) ==
    LET n == Len(data)
        xs == xPoints(data)
        ys == yPoints(data, type)
        xSum == Sum(xs)
        ySum == Sum(ys)
    IN [nan |-> \E i \in 1..n : ~Has(data[i], metricField(type)),
        num |-> Sum([i \in 1..n |-> (n * xs[i] - xSum) * (n * ys[i] - ySum)]),
        den |-> Sum([i \in 1..n |-> (n * xs[i] - xSum) * (n * xs[i] - xSum)])]

\* Math.abs(slope) < threshold ? 'stagnant' : slope > 0 ? 'up' : 'down'
\* (every comparison with NaN is false)
classify(s) ==
    IF s.nan THEN "down"
    ELSE IF threshold.den * Abs(s.num) < threshold.num * s.den * Scale THEN "stagnant"
    ELSE IF s.num > 0 THEN "up" ELSE "down"

\* a null entry of a series
Null == [isNull |-> TRUE]

\* calculateTrend: 'stagnant' for fewer than two points; else the sort comes
\* first, whose comparator reads the timestamp of both its arguments and is
\* called with every element of the array, so that a null element makes it
\* throw a TypeError, which leaves calculateTrend
calculateTrend(history, type) ==
    IF Len(history) < 2 THEN "stagnant"
    ELSE IF \E i \in 1..Len(history) : Has(history[i], "isNull") THEN "TypeError"
    ELSE classify(slope(sortedHistory(history), type))

\* calculateTrend(history, type) returns
CalcTrend ==
    /\ trend.result = "pending"
    /\ trend' = [trend EXCEPT !.result = calculateTrend(trend.history, trend.type)]
    /\ UNCHANGED <<appVars, listVars, cardVars, historyVars, viewVars, otherVars>>

\* History points offered to calculateTrend: timestamps with ties and uneven
\* gaps, liquidity in steps around the threshold, whole holder counts, and
\* points without a liquidity value
Timestamps == {1, 2, 12}
LiquidityValues == {0, 1, 16}
HolderValues == {100 * Scale, 150 * Scale, 200 * Scale}

HistoryPoints ==
    { [timestamp |-> t, totalLiquidity |-> l, holderCount |-> 100 * Scale] :
        t \in Timestamps, l \in LiquidityValues }
    \cup { [timestamp |-> t, totalLiquidity |-> 0, holderCount |-> h] :
             t \in Timestamps, h \in HolderValues }
    \cup { [timestamp |-> t, holderCount |-> 100 * Scale] : t \in Timestamps }

Histories == UNION { [1..n -> HistoryPoints] : n \in 0..MaxHistory }

InitTrend ==
    /\ InitApp
    /\ trend \in [history : Histories, type : {"liquidity", "holders"}, result : {"pending"}]
    /\ CardIdle
    /\ ListIdle
    /\ OtherIdle

NextTrend == CalcTrend

SpecTrend == InitTrend /\ [][NextTrend]_vars

----------------------------------------------------------------------------
(* TokenEventCard: onMount (persisted history entry, fetch, validation) *)

\* Cache valid for 5 minutes
CardCacheExpiry == 5 * 60 * 1000

\* setTimeout(() => controller.abort(), 10000)
FetchTimeout == 10000

\* JSON values of a history point's properties
Num(n) == [t |-> "number", v |-> n]
Str == [t |-> "string", v |-> 0]
Undef == [t |-> "undefined", v |-> 0]

\* point.f
Get(point, f) == IF Has(point, f) THEN point[f] ELSE Undef

\* typeof value === 'number'
IsNumber(value) == value.t = "number"

\* a || b
Or(a, b) == IF (a.t = "number" /\ a.v # 0) \/ a.t = "string" THEN a ELSE b

hasTimestamp(point) == IsNumber(Get(point, "timestamp")) \/ IsNumber(Get(point, "time"))

hasLiquidity(point) ==
    \/ IsNumber(Get(point, "liquidity"))
    \/ IsNumber(Get(point, "total_liquidity"))
    \/ IsNumber(Get(point, "totalLiquidity"))

hasHolders(point) ==
    \/ IsNumber(Get(point, "holders"))
    \/ IsNumber(Get(point, "holder_count"))
    \/ IsNumber(Get(point, "holderCount"))

\* the value the filter callback returns for an object
keepPoint(point) == hasTimestamp(point) /\ (hasLiquidity(point) \/ hasHolders(point))

\* the map callback
convertPoint(point) ==
    [timestamp |-> Or(Get(point, "timestamp"), Get(point, "time")),
     totalLiquidity |-> Or(Or(Or(Get(point, "liquidity"), Get(point, "total_liquidity")),
                              Get(point, "totalLiquidity")), Num(0)),
     holderCount |-> Or(Or(Or(Get(point, "holders"), Get(point, "holder_count")),
                           Get(point, "holderCount")), Num(0)),
     lpHolderCount |-> Or(Or(Get(point, "lp_holder_count"), Get(point, "lpHolderCount")), Num(0)),
     hpLiquidity |-> Or(Or(Get(point, "hp_liquidity"), Get(point, "hpLiquidity")), Num(0)),
     gpLiquidity |-> Or(Or(Get(point, "gp_liquidity"), Get(point, "gpLiquidity")), Num(0))]

RECURSIVE filterMap(_)
filterMap(historyArray) ==
    IF Len(historyArray) = 0 THEN <<>>
    ELSE (IF keepPoint(Head(historyArray)) THEN <<convertPoint(Head(historyArray))>> ELSE <<>>)
         \o filterMap(Tail(historyArray))

\* a.timestamp - b.timestamp > 0 (a difference that is NaN orders nothing)
stampAfter(a, b) ==
    IsNumber(a.timestamp) /\ IsNumber(b.timestamp) /\ a.timestamp.v - b.timestamp.v > 0

\* one step of .sort((a, b) => a.timestamp - b.timestamp)
RECURSIVE insertPoint(_, _)
insertPoint(sorted, point) ==
    IF Len(sorted) = 0 THEN <<point>>
    ELSE IF stampAfter(sorted[Len(sorted)], point)
         THEN Append(insertPoint(SubSeq(sorted, 1, Len(sorted) - 1), point),
                     sorted[Len(sorted)])
         ELSE Append(sorted, point)

RECURSIVE sortPoints(_)
sortPoints(points) ==
    IF Len(points) = 0 THEN <<>>
    ELSE insertPoint(sortPoints(SubSeq(points, 1, Len(points) - 1)), points[Len(points)])

\* Lines 132-166 on a parsed response body [kind, points]: the valid points,
\* or the error thrown
validHistoryPoints(body) ==
    IF body.kind = "scalar"
    THEN [error |-> "Invalid history data format", points |-> <<>>]
    ELSE IF \E i \in 1..Len(body.points) : Has(body.points[i], "isNull")
    THEN [error |-> "TypeError", points |-> <<>>]
    ELSE LET valid == sortPoints(filterMap(body.points))
         IN IF Len(valid) = 0
            THEN [error |-> "No valid history points found", points |-> <<>>]
            ELSE [error |-> "null", points |-> valid]

\* What an awaited promise of onMount comes to: [kind, body]
NoBody == [kind |-> "none", points |-> <<>>]

\* the message the catch clause sets for a promise that comes to a failure
failureMessage(response) ==
    CASE response.kind = "timeout" -> "Request timed out"
      [] response.kind = "network" -> "Failed to fetch"
      [] response.kind = "http" -> "HTTP error! status: 500"
      [] response.kind = "syntax" -> "SyntaxError"
      [] OTHER -> validHistoryPoints(response.body).error

\* the cache check at the start of onMount
cardCacheHit(entry) == entry.kind = "json" /\ now - entry.timestamp < CardCacheExpiry

\* The requests of the address that go on once its card is disposed: the
\* card has no onCleanup and nothing aborts its fetch, so an onMount that has
\* not ended runs to its end
pendingOf(card) ==
    card.disposed \o (IF card.phase \in {"fetching", "reading"}
                      THEN <<[phase |-> card.phase, startedAt |-> card.startedAt]>>
                      ELSE <<>>)

\* the card after onMount has run up to the first await
mountedCard(a, disposed) ==
    IF cardCacheHit(storage[a])
    THEN [phase |-> "done", history |-> storage[a].data,
          chartData |-> storage[a].data, isLoading |-> FALSE,
          error |-> "null", startedAt |-> 0, disposed |-> disposed]
    ELSE [Unmounted EXCEPT !.phase = "fetching", !.startedAt = now,
                           !.disposed = disposed]

cardLookup(a) ==
    [cache |-> "card", address |-> a,
     present |-> storage[a].kind = "json",
     age |-> now - storage[a].timestamp,
     hit |-> cardCacheHit(storage[a])]

\* no address has more requests of disposed cards than are followed
WithinDisposed(c) == \A a \in DOMAIN c : Len(c[a].disposed) <= MaxDisposed

\* onMount up to the first await
CardMount(a) ==
    /\ cards[a].phase = "unmounted"
    /\ cards' = [cards EXCEPT ![a] = mountedCard(a, @.disposed)]
    /\ lookups' = {cardLookup(a)}
    /\ started' = IF cardCacheHit(storage[a]) THEN {} ELSE {[by |-> "card", address |-> a]}
    /\ settled' = NothingSettled
    /\ UNCHANGED <<now, storage>>

\* the abort timer of a request started at startedAt is due; it is taken to
\* run when it is due, and a fetch that is aborted rejects
aborted(startedAt) == now - startedAt >= FetchTimeout

\* the catch and finally clauses (the abort timer has run, is cleared, or
\* finds the fetch ended)
failedCard(card, message) ==
    [card EXCEPT !.phase = "done", !.error = message, !.isLoading = FALSE,
                 !.startedAt = 0]

\* lines 177-179 and the finally clause
loadedCard(card, points) ==
    [card EXCEPT !.phase = "done", !.history = points, !.chartData = points,
                 !.error = "null", !.isLoading = FALSE]

\* lines 169-175: the entry is written when nothing was thrown before
storedAfter(a, response) ==
    IF failureMessage(response) = "null"
    THEN [storage EXCEPT ![a] =
             [kind |-> "json", data |-> validHistoryPoints(response.body).points,
              timestamp |-> now]]
    ELSE storage

\* the request that has ended, and the caches before its last step
settledRequest(by, a, response) ==
    [by |-> by, address |-> a, failed |-> failureMessage(response) # "null",
     fetched |-> response.body.kind \in {"array", "history"},
     series |-> response.body.points,
     storage |-> storage,
     histories |-> tokenHistories, trends |-> tokenTrends]

\* sequence s without its i-th element
RemoveAt(s, i) == SubSeq(s, 1, i - 1) \o SubSeq(s, i + 1, Len(s))

\* onMount from the first await (line 116) to the second (line 126): the
\* fetch is aborted, rejects, or resolves with the headers of the response;
\* line 120 clears the abort timer, line 123 throws for a status that is not ok
CardRespond(a, response) ==
    /\ cards[a].phase = "fetching"
    /\ (response.kind = "timeout") <=> aborted(cards[a].startedAt)
    /\ IF response.kind = "headers"
       THEN /\ cards' = [cards EXCEPT ![a].phase = "reading", ![a].startedAt = 0]
            /\ settled' = NothingSettled
       ELSE /\ cards' = [cards EXCEPT ![a] = failedCard(@, failureMessage(response))]
            /\ settled' = settledRequest("card", a, response)
    /\ lookups' = {}
    /\ started' = {}
    /\ UNCHANGED <<now, storage>>

\* onMount from the second await (line 126) to the end: the text of the body
\* has arrived, whenever that is
CardRead(a, response) ==
    /\ cards[a].phase = "reading"
    /\ storage' = storedAfter(a, response)
    /\ cards' = [cards EXCEPT ![a] =
                    IF failureMessage(response) = "null"
                    THEN loadedCard(@, validHistoryPoints(response.body).points)
                    ELSE failedCard(@, failureMessage(response))]
    /\ settled' = settledRequest("card", a, response)
    /\ lookups' = {}
    /\ started' = {}
    /\ UNCHANGED now

\* the same two steps of the onMount of a card that has been disposed: its
\* signals are shown nowhere, the entry is written all the same
DisposedRespond(a, i, response) ==
    /\ i \in 1..Len(cards[a].disposed)
    /\ cards[a].disposed[i].phase = "fetching"
    /\ (response.kind = "timeout") <=> aborted(cards[a].disposed[i].startedAt)
    /\ IF response.kind = "headers"
       THEN /\ cards' = [cards EXCEPT ![a].disposed[i] =
                                 [phase |-> "reading", startedAt |-> 0]]
            /\ settled' = NothingSettled
       ELSE /\ cards' = [cards EXCEPT ![a].disposed = RemoveAt(@, i)]
            /\ settled' = settledRequest("disposed", a, response)
    /\ lookups' = {}
    /\ started' = {}
    /\ UNCHANGED <<now, storage>>

DisposedRead(a, i, response) ==
    /\ i \in 1..Len(cards[a].disposed)
    /\ cards[a].disposed[i].phase = "reading"
    /\ storage' = storedAfter(a, response)
    /\ cards' = [cards EXCEPT ![a].disposed = RemoveAt(@, i)]
    /\ settled' = settledRequest("disposed", a, response)
    /\ lookups' = {}
    /\ started' = {}
    /\ UNCHANGED now

\* the card is disposed (its row is collapsed or rendered anew), whatever
\* onMount has come to
CardUnmount(a) ==
    /\ cards[a].phase # "unmounted"
    /\ Len(pendingOf(cards[a])) <= MaxDisposed
    /\ cards' = [cards EXCEPT ![a] = [Unmounted EXCEPT !.disposed = pendingOf(cards[a])]]
    /\ lookups' = {}
    /\ started' = {}
    /\ settled' = NothingSettled
    /\ UNCHANGED <<now, storage>>

\* time passes: half of the time a cached series is valid for, which is more
\* than the abort timer waits
TickSteps == {CardCacheExpiry \div 2}

Tick(step) ==
    /\ now + step <= MaxClock
    /\ now' = now + step
    /\ lookups' = {}
    /\ started' = {}
    /\ settled' = NothingSettled
    /\ UNCHANGED <<storage, cards>>

\* Points a history response can carry: the property names of either API
\* flavour, a timestamp that is a string, no timestamp, no metric, and null
ResponsePoints ==
    { [timestamp |-> Num(2), liquidity |-> Num(5)],
      [time |-> Num(1), holder_count |-> Num(7)],
      [timestamp |-> Num(3)],
      [totalLiquidity |-> Num(4)],
      [timestamp |-> Str, holders |-> Num(3)],
      Null }

ResponseSeries == UNION { [1..n -> ResponsePoints] : n \in 0..MaxSeries }

\* what await fetch comes to: the abort, a network failure, the headers of a
\* response with status 500 or 200
CardResponses ==
    { [kind |-> k, body |-> NoBody] : k \in {"timeout", "network", "http", "headers"} }

\* what await response.text() and the parse come to
CardBodies ==
    { [kind |-> "syntax", body |-> NoBody],
      [kind |-> "json", body |-> [kind |-> "scalar", points |-> <<>>]] }
    \cup { [kind |-> "json", body |-> [kind |-> k, points |-> p]] :
             k \in {"array", "history"}, p \in ResponseSeries }

\* One card at a time, every response
CardAddr == <<"0", "x", "A", "1">>

InitCard == InitApp /\ ExtIdle

NextCard ==
    \/ CardMount(CardAddr) /\ UNCHANGED <<appVars, listVars, trendVars, otherVars, historyVars, viewVars>>
    \/ \E response \in CardResponses :
          CardRespond(CardAddr, response) /\ UNCHANGED <<appVars, listVars, trendVars, otherVars, historyVars, viewVars>>
    \/ \E response \in CardBodies :
          CardRead(CardAddr, response) /\ UNCHANGED <<appVars, listVars, trendVars, otherVars, historyVars, viewVars>>
    \/ CardUnmount(CardAddr) /\ UNCHANGED <<appVars, listVars, trendVars, otherVars, historyVars, viewVars>>
    \/ \E i \in 1..MaxDisposed, response \in CardResponses :
          DisposedRespond(CardAddr, i, response) /\ UNCHANGED <<appVars, listVars, trendVars, otherVars, historyVars, viewVars>>
    \/ \E i \in 1..MaxDisposed, response \in CardBodies :
          DisposedRead(CardAddr, i, response) /\ UNCHANGED <<appVars, listVars, trendVars, otherVars, historyVars, viewVars>>
    \/ \E step \in TickSteps : Tick(step) /\ UNCHANGED <<appVars, listVars, trendVars, otherVars, historyVars, viewVars>>

SpecCard == InitCard /\ [][NextCard]_vars

----------------------------------------------------------------------------
(* TokenEventsList: histories of the visible rows, expansion, measured
   heights and scroll position (list view) *)

COLLAPSED_HEIGHT == 42
EXPANDED_HEIGHT == 800

\* const HISTORY_CACHE_EXPIRY = 5 * 60 * 1000
HistoryCacheExpiry == 5 * 60 * 1000

\* filteredTokens()
rows == filteredTokens.value

\* filteredTokens()[index]?.tokenAddress
addressAt(list, index) ==
    IF index + 1 \in 1..Len(list) /\ Has(list[index + 1], "tokenAddress")
    THEN list[index + 1].tokenAddress
    ELSE NoAddress

\* new Set(currentTokens.map(token => token.tokenAddress)): undefined is
\* among them when a record has no address
rowAddresses(list) == {addressAt(list, i) : i \in 0..(Len(list) - 1)}

\* filteredTokens().findIndex(t => t.tokenAddress === tokenAddress)
findIndex(list, tokenAddress) ==
    IF \E i \in 0..(Len(list) - 1) : addressAt(list, i) = tokenAddress
    THEN CHOOSE i \in 0..(Len(list) - 1) :
            /\ addressAt(list, i) = tokenAddress
            /\ \A j \in 0..(i - 1) : addressAt(list, j) # tokenAddress
    ELSE -1

\* the index ranges getVirtualItems() can return for a list of n rows
Windows(n) == {{}} \cup {a..b : a \in 0..(n - 1), b \in 0..(n - 1)}

\* Array.from(uniqueTokens) without the undefined addresses, from row index on
\* (the addresses of the rows are distinct: they are the keys of the store)
RECURSIVE uniqueTokens(_, _, _)
uniqueTokens(list, items, index) ==
    IF index >= Len(list) THEN <<>>
    ELSE (IF index \in items /\ addressAt(list, index) # NoAddress
          THEN <<addressAt(list, index)>> ELSE <<>>)
         \o uniqueTokens(list, items, index + 1)

\* the addresses the visible-token effect calls fetchTokenHistory for
effectMisses(list, items, histories) ==
    SelectSeq(uniqueTokens(list, items, 0), LAMBDA a : a \notin DOMAIN histories)

\* the fetchTokenHistory calls of the visible-token effect, each at its
\* first await
effectFetches(list, items, histories) ==
    LET misses == effectMisses(list, items, histories)
    IN [i \in 1..Len(misses) |-> [address |-> misses[i], phase |-> "fetching"]]

effectLookups(list, items, histories) ==
    LET visible == uniqueTokens(list, items, 0)
    IN {[cache |-> "list", address |-> visible[i],
         present |-> visible[i] \in DOMAIN histories,
         age |-> IF visible[i] \in DOMAIN histories
                 THEN now - histories[visible[i]].storedAt ELSE 0,
         hit |-> visible[i] \in DOMAIN histories] : i \in 1..Len(visible)}

effectStarted(list, items, histories) ==
    LET fetches == effectFetches(list, items, histories)
    IN {[by |-> "list", address |-> fetches[i].address] : i \in 1..Len(fetches)}

\* The list view and the grid view render a TokenEventCard for every
\* expanded row, the chart view renders none; the rows are created anew
\* whenever viewMode(), filteredTokens() or expandedTokens() changes, and each
\* new card runs onMount, while the requests of the cards disposed go on
renderedCards(list, expanded, mode) ==
    IF mode \in {"list", "grid"} THEN rowAddresses(list) \cap expanded \cap CardKeys
    ELSE {}

renderCards(list, expanded, mode) ==
    [a \in CardKeys |->
        IF a \in renderedCards(list, expanded, mode)
        THEN mountedCard(a, pendingOf(cards[a]))
        ELSE [Unmounted EXCEPT !.disposed = pendingOf(cards[a])]]

renderLookups(list, expanded, mode) ==
    {cardLookup(a) : a \in renderedCards(list, expanded, mode)}

renderStarted(list, expanded, mode) ==
    {[by |-> "card", address |-> a] :
        a \in {b \in renderedCards(list, expanded, mode) : ~cardCacheHit(storage[b])}}

\* The addresses of the rows that show a control calling handleTokenClick:
\* every row (CompactRow or card in the list view, tile in the grid view,
\* button in the chart view), but only the expanded rows in the grid view
\* once a token is expanded
clickable(list, expanded, mode) ==
    IF mode = "grid" /\ expanded # {} THEN rowAddresses(list) \cap expanded
    ELSE rowAddresses(list)

\* estimateSize
estimateSize(index) ==
    IF index + 1 \notin 1..Len(rows) THEN COLLAPSED_HEIGHT
    ELSE IF index \in DOMAIN measuredHeights /\ measuredHeights[index] # 0
         THEN measuredHeights[index]
    ELSE IF addressAt(rows, index) \in expandedTokens THEN EXPANDED_HEIGHT
    ELSE COLLAPSED_HEIGHT

\* scrollMargin: 200 of createVirtualizer
scrollMargin == 200

\* the offset virtualizer().scrollToIndex(index, {align: 'start'}) heads for:
\* the start the virtualizer computes for row index from the scroll margin and
\* the estimated sizes of the rows before it. The rows themselves are laid out
\* by the browser in normal flow, so this is not where a row is on the screen
rowOffset(index) == scrollMargin + Sum([i \in 1..index |-> estimateSize(i - 1)])

\* Mutant: a toggle only ever adds the address
toggledAddOnlyMutant(expanded, tokenAddress) == expanded \cup {tokenAddress}

\* toggleTokenExpansion
toggled(expanded, tokenAddress) ==
    IF tokenAddress \in expanded THEN expanded \ {tokenAddress}
    ELSE expanded \cup {tokenAddress}

\* the virtualizer reports new virtual items; the visible-token effect runs
SetWindow(items) ==
    /\ listShown
    /\ items \in Windows(Len(rows))
    /\ items # window
    /\ Len(listFetches) + Len(effectFetches(rows, items, tokenHistories)) <= MaxFetches
    /\ window' = items
    /\ listFetches' = listFetches \o effectFetches(rows, items, tokenHistories)
    /\ lookups' = effectLookups(rows, items, tokenHistories)
    /\ started' = effectStarted(rows, items, tokenHistories)
    /\ settled' = NothingSettled
    /\ lastOp' = OtherOp
    /\ UNCHANGED <<appVars, listVars, trendVars, otherVars, now, storage, cards, tokenHistories,
                   tokenTrends, expandedTokens, measuredHeights, measuredFor,
                   scrollTop, smooth, raf, resetPending>>

\* fetchTokenHistory from the first await (line 430) to the second (line
\* 431): the fetch rejects, which the catch clause logs, or resolves with the
\* headers of the response, whose status is not looked at
ListRespond(i, response) ==
    /\ i \in 1..Len(listFetches)
    /\ listFetches[i].phase = "fetching"
    /\ IF response.kind = "headers"
       THEN /\ listFetches' = [listFetches EXCEPT ![i].phase = "reading"]
            /\ settled' = NothingSettled
       ELSE /\ listFetches' = RemoveAt(listFetches, i)
            /\ settled' = [by |-> "list", address |-> listFetches[i].address,
                           failed |-> TRUE, fetched |-> FALSE, series |-> <<>>,
                           storage |-> storage,
                           histories |-> tokenHistories, trends |-> tokenTrends]
    /\ lookups' = {}
    /\ started' = {}
    /\ lastOp' = OtherOp
    /\ UNCHANGED <<appVars, listVars, trendVars, otherVars, now, storage, cards,
                   tokenHistories, tokenTrends, window,
                   expandedTokens, measuredHeights, measuredFor, scrollTop, smooth, raf,
                   resetPending>>

\* fetchTokenHistory from the second await (line 431) to the end: json()
\* rejects, or the body has been parsed. A body whose history is an array is
\* set in tokenHistories, which runs the visible-token effect again, and
\* then updateTokenTrends computes both trends and sets them; when
\* calculateTrend throws, the history stays set and no trend is. The catch
\* clause logs whatever was thrown
ListRead(i, response) ==
    /\ i \in 1..Len(listFetches)
    /\ listFetches[i].phase = "reading"
    /\ LET a == listFetches[i].address
           rest == RemoveAt(listFetches, i)
           ok == response.kind = "json" /\ response.body.kind = "history"
           liquidityTrend == calculateTrend(response.body.points, "liquidity")
           holdersTrend == calculateTrend(response.body.points, "holders")
           thrown == liquidityTrend = "TypeError" \/ holdersTrend = "TypeError"
           next == With(tokenHistories, a,
                        [history |-> response.body.points, storedAt |-> now])
       IN /\ settled' = [by |-> "list", address |-> a, failed |-> ~ok \/ thrown,
                         fetched |-> ok, series |-> response.body.points,
                         storage |-> storage,
                         histories |-> tokenHistories, trends |-> tokenTrends]
          /\ IF ok
             THEN /\ Len(rest) + Len(effectFetches(rows, window, next)) <= MaxFetches
                  /\ tokenHistories' = next
                  /\ tokenTrends' =
                        IF thrown THEN tokenTrends
                        ELSE With(tokenTrends, a,
                                  [liquidity |-> liquidityTrend, holders |-> holdersTrend])
                  /\ listFetches' = rest \o effectFetches(rows, window, next)
                  /\ lookups' = effectLookups(rows, window, next)
                  /\ started' = effectStarted(rows, window, next)
             ELSE /\ listFetches' = rest
                  /\ lookups' = {}
                  /\ started' = {}
                  /\ UNCHANGED <<tokenHistories, tokenTrends>>
    /\ lastOp' = OtherOp
    /\ UNCHANGED <<appVars, listVars, trendVars, otherVars, now, storage, cards, window,
                   expandedTokens, measuredHeights, measuredFor, scrollTop, smooth, raf,
                   resetPending>>

\* handleTokenClick on a rendered row
HandleTokenClick(tokenAddress) ==
    /\ listShown
    /\ tokenAddress \in clickable(rows, expandedTokens, viewMode)
    /\ Len(raf) < MaxRaf
    /\ expandedTokens' = toggled(expandedTokens, tokenAddress)
    /\ LET index == findIndex(rows, tokenAddress)
       IN /\ measuredHeights' = Without(measuredHeights, index)
          /\ measuredFor' = Without(measuredFor, index)
          /\ raf' = IF index >= 0
                    THEN Append(raf, [kind |-> "scrollToIndex", value |-> index])
                    ELSE raf
    /\ cards' = renderCards(rows, expandedTokens', viewMode)
    /\ WithinDisposed(cards')
    /\ lookups' = renderLookups(rows, expandedTokens', viewMode)
    /\ started' = renderStarted(rows, expandedTokens', viewMode)
    /\ settled' = NothingSettled
    /\ lastOp' = [OtherOp EXCEPT !.name = "toggle", !.offset = scrollTop,
                                 !.address = tokenAddress, !.before = expandedTokens]
    /\ resetPending' = FALSE
    /\ UNCHANGED <<appVars, listVars, trendVars, otherVars, now, storage, historyVars, scrollTop, smooth>>

\* the Expand All / Collapse All button
ExpandAll ==
    /\ listShown
    /\ expandedTokens' = IF rowAddresses(rows) \cap expandedTokens # {}
                         THEN {} ELSE rowAddresses(rows)
    /\ cards' = renderCards(rows, expandedTokens', viewMode)
    /\ WithinDisposed(cards')
    /\ lookups' = renderLookups(rows, expandedTokens', viewMode)
    /\ started' = renderStarted(rows, expandedTokens', viewMode)
    /\ settled' = NothingSettled
    /\ lastOp' = [OtherOp EXCEPT !.name = "expandAll", !.before = expandedTokens]
    /\ UNCHANGED <<appVars, listVars, trendVars, otherVars, now, storage, historyVars,
                   measuredHeights, measuredFor, scrollTop, smooth, raf, resetPending>>

\* the entries of a ResizeObserver callback whose height is not the one
\* recorded (prevHeight !== currentHeight)
changedEntries(entries) ==
    {index \in DOMAIN entries :
        ~(index \in DOMAIN measuredHeights /\ measuredHeights[index] = entries[index])}

\* The ResizeObserver callback: entries gives the height of every element
\* reported, by its data-index; the elements observed are rows among the
\* virtual items. All the heights are set at once and one frame is requested;
\* a callback that finds no new height does nothing
Measure(entries) ==
    /\ listShown
    /\ DOMAIN entries # {}
    /\ DOMAIN entries \subseteq window
    /\ \A index \in DOMAIN entries : index < Len(rows)
    /\ changedEntries(entries) # {}
    /\ Len(raf) < MaxRaf
    /\ measuredHeights' =
          [index \in DOMAIN measuredHeights \cup changedEntries(entries) |->
              IF index \in changedEntries(entries) THEN entries[index]
              ELSE measuredHeights[index]]
    /\ measuredFor' =
          [index \in DOMAIN measuredFor \cup changedEntries(entries) |->
              IF index \in changedEntries(entries) THEN addressAt(rows, index)
              ELSE measuredFor[index]]
    /\ raf' = Append(raf, [kind |-> "restore", value |-> scrollTop])
    /\ lookups' = {}
    /\ started' = {}
    /\ settled' = NothingSettled
    /\ lastOp' = OtherOp
    /\ UNCHANGED <<appVars, listVars, trendVars, otherVars, now, storage, cards, historyVars,
                   expandedTokens, scrollTop, smooth, resetPending>>

\* The callbacks of one animation frame, in the order they were requested:
\* a restore callback writes scrollTop, which ends a smooth scroll under way;
\* scrollToIndex(index, {align: 'start', behavior: 'smooth'}) starts a smooth
\* scroll to the start of the row and leaves scrollTop as it is
RECURSIVE runFrame(_, _)
runFrame(callbacks, scroll) ==
    IF Len(callbacks) = 0 THEN scroll
    ELSE runFrame(Tail(callbacks),
                  IF Head(callbacks).kind = "restore"
                  THEN [top |-> Head(callbacks).value, smooth |-> NoScroll]
                  ELSE [top |-> scroll.top, smooth |-> rowOffset(Head(callbacks).value)])

\* Mutant: the callback of the resize scrolls to the top
HandleResizeToTopMutant ==
    /\ listShown
    /\ Len(raf) <= MaxRaf
    /\ measuredHeights' = <<>>
    /\ measuredFor' = <<>>
    /\ raf' = Append(raf, [kind |-> "restore", value |-> 0,
                           resize |-> [read |-> scrollTop,
                                       heights |-> Cardinality(DOMAIN measuredHeights)]])
    /\ lookups' = {}
    /\ started' = {}
    /\ settled' = NothingSettled
    /\ lastOp' = [OtherOp EXCEPT !.name = "resize",
                                 !.heights = Cardinality(DOMAIN measuredHeights),
                                 !.offset = scrollTop,
                                 !.queued = Len(raf)]
    /\ UNCHANGED <<appVars, listVars, trendVars, otherVars, now, storage, cards, historyVars,
                   expandedTokens, scrollTop, smooth, resetPending>>

\* handleResize, the listener of the resize event of the window: it reads the
\* scroll offset (currentScroll), clears the measured heights and requests an
\* animation frame whose callback writes the offset it read. It returns with
\* the callback pending and the scroll offset as it was; what the browser
\* runs before the frame (a scroll, a filter change, a ResizeObserver
\* callback) finds that state. The callback carries, as history, what the
\* handler found: the offset read and the number of heights recorded. A
\* resize is handled also when MaxRaf callbacks are pending
HandleResize ==
    /\ listShown
    /\ Len(raf) <= MaxRaf
    /\ measuredHeights' = <<>>
    /\ measuredFor' = <<>>
    /\ raf' = Append(raf, [kind |-> "restore", value |-> scrollTop,
                           resize |-> [read |-> scrollTop,
                                       heights |-> Cardinality(DOMAIN measuredHeights)]])
    /\ lookups' = {}
    /\ started' = {}
    /\ settled' = NothingSettled
    /\ lastOp' = [OtherOp EXCEPT !.name = "resize",
                                 !.heights = Cardinality(DOMAIN measuredHeights),
                                 !.offset = scrollTop,
                                 !.queued = Len(raf)]
    /\ UNCHANGED <<appVars, listVars, trendVars, otherVars, now, storage, cards, historyVars,
                   expandedTokens, scrollTop, smooth, resetPending>>

\* JSON.stringify(updated) as localStorage keeps it: the text is represented
\* by the value JSON.parse gives for it (the properties of a FilterState are
\* booleans, finite numbers and strings, which the text keeps as they are)
stringify(value) == [kind |-> "json", value |-> value]

\* getSavedFilters: the parsed entry whatever it is, the defaults when there
\* is no entry, the entry is the empty string or JSON.parse throws
getSavedFilters(saved) ==
    IF saved.kind = "json" THEN saved.value ELSE DefaultFilters

\* What follows a change of filteredTokens(): the rows and their cards are
\* rendered anew, the virtualizer is created anew and reports its virtual
\* items, and the visible-token effect runs
Rerender(list, items) ==
    /\ items \in Windows(Len(list))
    /\ Len(listFetches) + Len(effectFetches(list, items, tokenHistories)) <= MaxFetches
    /\ window' = items
    /\ listFetches' = listFetches \o effectFetches(list, items, tokenHistories)
    /\ cards' = renderCards(list, expandedTokens, viewMode)
    /\ WithinDisposed(cards')
    /\ lookups' = renderLookups(list, expandedTokens, viewMode)
                    \cup effectLookups(list, items, tokenHistories)
    /\ started' = renderStarted(list, expandedTokens, viewMode)
                    \cup effectStarted(list, items, tokenHistories)
    /\ settled' = NothingSettled

\* {...f}: the properties of the FilterState the signal holds, none when it
\* holds null
spread(f) == IF Has(f, "isNull") THEN <<>> ELSE f

\* Mutant: the measured heights survive the filter change
UpdateFiltersKeepHeightsMutant(field, value, items) ==
    LET updated == With(spread(filters), field, value)
    IN /\ listShown
       /\ filters' = updated
       /\ filteredTokens' = evaluate(ObjectValues(tokens), updated)
       /\ scrollTop' = 0
       /\ smooth' = NoScroll
       /\ UNCHANGED <<measuredHeights, measuredFor>>
       /\ Rerender(filteredTokens'.value, items)
       /\ lastOp' = [OtherOp EXCEPT !.name = "updateFilters",
                                    !.heights = Cardinality(DOMAIN measuredHeights)]
       /\ resetPending' = TRUE
       /\ savedFilters' = stringify(updated)
       /\ UNCHANGED <<appVars, trendVars, historyCache, viewMode, throttle, now, storage,
                      tokenHistories, tokenTrends, expandedTokens, raf>>

\* updateFilters as every control of the list calls it, with the updater
\* f => ({...f, field: value}): the FilterState the signal holds keeps its
\* other properties, so one taken from a snapshot that is not a FilterState
\* stays incomplete; the memo is evaluated with the updated value, which is
\* written to localStorage. Writing scrollTop ends a smooth scroll under way
UpdateFilters(field, value, items) ==
    LET updated == With(spread(filters), field, value)
    IN /\ listShown
       /\ filters' = updated
       /\ filteredTokens' = evaluate(ObjectValues(tokens), updated)
       /\ scrollTop' = 0
       /\ smooth' = NoScroll
       /\ measuredHeights' = <<>>
       /\ measuredFor' = <<>>
       /\ Rerender(filteredTokens'.value, items)
       /\ lastOp' = [OtherOp EXCEPT !.name = "updateFilters",
                                    !.heights = Cardinality(DOMAIN measuredHeights)]
       /\ resetPending' = TRUE
       /\ savedFilters' = stringify(updated)
       /\ UNCHANGED <<appVars, trendVars, historyCache, viewMode, throttle, now, storage,
                      tokenHistories, tokenTrends, expandedTokens, raf>>

\* setViewMode (the List, Grid and Chart buttons); the effect of line 695
\* writes the mode to localStorage
SetViewMode(mode) ==
    /\ listShown
    /\ mode # viewMode
    /\ viewMode' = mode
    /\ cards' = renderCards(rows, expandedTokens, mode)
    /\ WithinDisposed(cards')
    /\ lookups' = renderLookups(rows, expandedTokens, mode)
    /\ started' = renderStarted(rows, expandedTokens, mode)
    /\ settled' = NothingSettled
    /\ lastOp' = OtherOp
    /\ UNCHANGED <<appVars, listVars, trendVars, savedFilters, historyCache, throttle, now, storage,
                   historyVars, viewVarsButOp>>

\* loadCachedHistories at time t: the data of the entry tokenHistoryCache
\* while Date.now() - timestamp < HISTORY_CACHE_EXPIRY, as the Map the signal
\* starts with; an empty Map when there is no entry, the entry is the empty
\* string, JSON.parse throws, the value is null (destructuring throws), it has
\* no timestamp (the comparison with NaN is false), it has expired, or it has
\* no data (Object.entries throws)
loadCachedHistories(cache, t) ==
    IF cache.kind # "json" \/ Has(cache.value, "isNull") THEN <<>>
    ELSE IF ~Has(cache.value, "timestamp") THEN <<>>
    ELSE IF ~(t - cache.value.timestamp < HistoryCacheExpiry) THEN <<>>
    ELSE IF ~Has(cache.value, "data") THEN <<>>
    ELSE [a \in DOMAIN cache.value.data |->
            [history |-> cache.value.data[a], storedAt |-> cache.value.timestamp]]

\* App creates the TokenEventsList: the signals take their initial values
\* (filters from getSavedFilters, tokenHistories from loadCachedHistories,
\* tokenTrends empty, viewMode from localStorage), createMemo
\* evaluates filteredTokens, the rows are rendered, the virtualizer reports its
\* virtual items and the visible-token effect runs
ListCreated(propsTokens, items) ==
    LET created == getSavedFilters(savedFilters)
        list == evaluate(propsTokens, created).value
        loaded == loadCachedHistories(historyCache, now)
    IN /\ items \in Windows(Len(list))
       /\ Len(effectFetches(list, items, loaded)) <= MaxFetches
       /\ filters' = created
       /\ filteredTokens' = evaluate(propsTokens, created)
       /\ tokenHistories' = loaded
       /\ tokenTrends' = <<>>
       /\ listFetches' = effectFetches(list, items, loaded)
       /\ window' = items
       /\ expandedTokens' = {}
       /\ measuredHeights' = <<>>
       /\ measuredFor' = <<>>
       /\ scrollTop' = 0
       /\ smooth' = NoScroll
       /\ raf' = <<>>
       /\ resetPending' = FALSE
       /\ cards' = renderCards(list, {}, viewMode)
       /\ lookups' = effectLookups(list, items, loaded)
       /\ started' = effectStarted(list, items, loaded)
       /\ settled' = NothingSettled
       /\ lastOp' = [OtherOp EXCEPT !.name = "mount"]

\* <Show> of App disposes the TokenEventsList. Its signals, its container and
\* the callbacks and fetchTokenHistory calls it has left behind belong to no
\* list that is shown, so they are followed no further; the requests of its
\* cards go on, since they write localStorage
ListDisposed ==
    /\ filters' = DefaultFilters
    /\ filteredTokens' = Pending
    /\ tokenHistories' = <<>>
    /\ tokenTrends' = <<>>
    /\ listFetches' = <<>>
    /\ window' = {}
    /\ expandedTokens' = {}
    /\ measuredHeights' = <<>>
    /\ measuredFor' = <<>>
    /\ scrollTop' = 0
    /\ smooth' = NoScroll
    /\ raf' = <<>>
    /\ resetPending' = FALSE
    /\ cards' = renderCards(<<>>, {}, viewMode)
    /\ WithinDisposed(cards')
    /\ lookups' = {}
    /\ started' = {}
    /\ settled' = NothingSettled
    /\ lastOp' = OtherOp

\* case 'CONNECTION_STATUS': setIsLoading(true) of a lost connection makes the
\* condition of <Show> false, which disposes the list
ConnectionStatus(data) ==
    /\ Remember([type |-> "CONNECTION_STATUS", data |-> data])
    /\ IF data.absent
       THEN /\ posted' = <<>>
            /\ UNCHANGED <<tokens, isConnected, connectionError, isLoading,
                           hasReceivedInitialTokens, log>>
       ELSE /\ isConnected' = data.connected
            /\ connectionError' = data.error
            /\ IF lostConnection(isConnected, data)
               THEN /\ tokens' = EmptyStore
                    /\ isLoading' = TRUE
                    /\ hasReceivedInitialTokens' = FALSE
                    /\ log' = <<>>
               ELSE UNCHANGED <<tokens, isLoading, hasReceivedInitialTokens, log>>
            /\ posted' = IF justConnected(isConnected, data)
                         THEN <<"REQUEST_INITIAL_TOKENS">> ELSE <<>>
    /\ IF ~data.absent /\ lostConnection(isConnected, data) /\ listMounted
       THEN ListDisposed
       ELSE /\ lookups' = {}
            /\ started' = {}
            /\ settled' = NothingSettled
            /\ lastOp' = OtherOp
            /\ UNCHANGED <<listVars, historyVars, viewVarsButOp, cards>>
    /\ UNCHANGED <<trendVars, otherVars, now, storage>>

\* case 'BATCH_PROCESSED'; items: the virtual items the virtualizer reports
\* when the rows are rendered. The first batch (and the first after a lost
\* connection) makes the condition of <Show> true, which creates the list;
\* while the list exists, a batch that stores a record changes props.tokens:
\* the filteredTokens memo is evaluated again and the rows are rendered anew
BatchProcessed(data, items) ==
    /\ Len(log) + Len(data) <= MaxLog
    /\ Remember([type |-> "BATCH_PROCESSED", data |-> data])
    /\ tokens' = MergeBatch(tokens, data)
    /\ hasReceivedInitialTokens' = TRUE
    /\ isLoading' = FALSE
    /\ log' = log \o data
    /\ posted' = <<>>
    /\ IF ~listMounted
       THEN ListCreated(ObjectValues(tokens'), items)
       ELSE IF data = <<>>
       THEN /\ items = {}
            /\ lookups' = {}
            /\ started' = {}
            /\ settled' = NothingSettled
            /\ lastOp' = OtherOp
            /\ UNCHANGED <<listVars, historyVars, viewVarsButOp, cards>>
       ELSE /\ filteredTokens' = evaluate(ObjectValues(tokens'), filters)
            /\ Rerender(filteredTokens'.value, items)
            /\ lastOp' = OtherOp
            /\ UNCHANGED <<filters, tokenHistories, tokenTrends, viewVarsButOp>>
    /\ UNCHANGED <<isConnected, connectionError, trendVars, otherVars, now, storage>>

\* the callbacks among those pending that handleResize requested
resizeCallbacks(callbacks) ==
    {i \in 1..Len(callbacks) : Has(callbacks[i], "resize")}

\* history: what the frame that has run found. When a callback of
\* handleResize was among its callbacks: the heights the handler of the last
\* such callback found and the offset it read, the number of callbacks
\* pending before it, the scroll
\* offset when that callback returned, and the number of callbacks that wrote
\* the scroll offset after it
frameOp(callbacks, scroll) ==
    IF resizeCallbacks(callbacks) = {} THEN OtherOp
    ELSE LET last == CHOOSE i \in resizeCallbacks(callbacks) :
                        \A j \in resizeCallbacks(callbacks) : j <= i
         IN [OtherOp EXCEPT !.name = "resized",
                            !.heights = callbacks[last].resize.heights,
                            !.offset = callbacks[last].resize.read,
                            !.queued = last - 1,
                            !.restored = runFrame(SubSeq(callbacks, 1, last), scroll).top,
                            !.later = Cardinality({j \in (last + 1)..Len(callbacks) :
                                                    callbacks[j].kind = "restore"})]

\* The animation frame: the callbacks requested since the last one run
Frame ==
    /\ Len(raf) > 0
    /\ scrollTop' = runFrame(raf, [top |-> scrollTop, smooth |-> smooth]).top
    /\ smooth' = runFrame(raf, [top |-> scrollTop, smooth |-> smooth]).smooth
    /\ raf' = <<>>
    /\ lookups' = {}
    /\ started' = {}
    /\ settled' = NothingSettled
    /\ lastOp' = frameOp(raf, [top |-> scrollTop, smooth |-> smooth])
    /\ resetPending' = (resetPending /\ \A i \in 1..Len(raf) : raf[i].kind = "restore")
    /\ UNCHANGED <<appVars, listVars, trendVars, otherVars, now, storage, cards, historyVars,
                   expandedTokens, measuredHeights, measuredFor>>

\* The smooth scroll started by scrollToIndex comes to its end: the offset it
\* was heading for, or the largest offset the container can be scrolled to
SmoothScroll(limit) ==
    /\ smooth # NoScroll
    /\ limit >= scrollTop
    /\ scrollTop' = IF smooth < limit THEN smooth ELSE limit
    /\ smooth' = NoScroll
    /\ lookups' = {}
    /\ started' = {}
    /\ settled' = NothingSettled
    /\ lastOp' = OtherOp
    /\ resetPending' = FALSE
    /\ UNCHANGED <<appVars, listVars, trendVars, otherVars, now, storage, cards, historyVars,
                   expandedTokens, measuredHeights, measuredFor, raf>>

\* the user scrolls the container, which ends a smooth scroll under way
Scroll(offset) ==
    /\ listShown
    /\ offset # scrollTop
    /\ scrollTop' = offset
    /\ smooth' = NoScroll
    /\ lookups' = {}
    /\ started' = {}
    /\ settled' = NothingSettled
    /\ lastOp' = OtherOp
    /\ resetPending' = FALSE
    /\ UNCHANGED <<appVars, listVars, trendVars, otherVars, now, storage, cards, historyVars,
                   expandedTokens, measuredHeights, measuredFor, raf>>

\* The application from the start of the page. The list is created in a
\* container that shows no row (no virtual items)
Init == InitApp /\ ExtIdle

Next ==
    \/ \E data \in StatusData : ConnectionStatus(data)
    \/ \E data \in SeqsUpTo(AppPool, MaxBatch) : BatchProcessed(data, {})

Spec == Init /\ [][Next]_vars

\* The batches that create the list: the records in the orders the worker
\* can deliver them
ListData ==
    { SubSeq(order, 1, IF n < Len(order) THEN n ELSE Len(order)) :
        order \in ListOrders, n \in 0..MaxListTokens }

\* The application is connected and has requested the initial tokens; the
\* entry tokenListFilters holds a FilterState
InitList ==
    /\ tokens = EmptyStore
    /\ isConnected = TRUE
    /\ connectionError = "null"
    /\ isLoading = TRUE
    /\ hasReceivedInitialTokens = FALSE
    /\ lastMsg = [type |-> "CONNECTION_STATUS",
                  data |-> [connected |-> TRUE, error |-> "null", absent |-> FALSE]]
    /\ prev = [tokens |-> EmptyStore, isConnected |-> FALSE, same |-> FALSE]
    /\ log = <<>>
    /\ posted = <<"REQUEST_INITIAL_TOKENS">>
    /\ filters = DefaultFilters
    /\ filteredTokens = Pending
    /\ TrendIdle
    /\ CardIdle
    /\ ListIdle
    /\ savedFilters \in {stringify(f) : f \in FilterStates}
    /\ historyCache = NoCache
    /\ viewMode = "list"
    /\ throttle = NoThrottle

\* the first batch creates the list, whose memo is evaluated
FirstBatch(data) == ~listMounted /\ BatchProcessed(data, {})

NextList == \E data \in ListData : FirstBatch(data)

SpecList == InitList /\ [][NextList]_vars

\* The first record merged after start, over every combination of risk signals
NextRisk ==
    \/ \E data \in {d \in StatusData : d.connected} : ConnectionStatus(data)
    \/ /\ log = <<>>
       /\ isConnected
       /\ \E token \in SignalTokens : BatchProcessed(<<token>>, {})

SpecRisk == Init /\ [][NextRisk]_vars

\* Responses to the list's GET /api/tokens/<address>/history
ListHistories ==
    { << [timestamp |-> 1, totalLiquidity |-> 0, holderCount |-> 100 * Scale],
         [timestamp |-> 2, totalLiquidity |-> 16, holderCount |-> 100 * Scale] >> }

\* history arrays with a null element ({"history":[{...},null]},
\* {"history":[null,null]})
NullHistories ==
    { << [timestamp |-> 1, totalLiquidity |-> 0, holderCount |-> 100 * Scale], Null >>,
      << Null, Null >> }

\* what await fetch comes to
ListResponses ==
    { [kind |-> k, body |-> NoBody] : k \in {"network", "headers"} }

\* what await response.json() comes to
ListBodies ==
    { [kind |-> "syntax", body |-> NoBody] }
    \cup { [kind |-> "json", body |-> [kind |-> "history", points |-> h]] :
             h \in ListHistories \cup NullHistories }

\* Rows, filters, heights and offsets of the list in use
Newer == [List2 EXCEPT !.tokenAgeHours = 0]

ViewBatches == {<<Newer>>}

\* the options of the sort control that are chosen
ViewSorts == {Age, Holders}

\* heights getBoundingClientRect() reports: an expanded card, and 0 for a
\* row that is not laid out
MeasuredValues == {0, 600}

\* the rows whose element the ResizeObserver reports: the first row
MeasuredRows == {0}

\* the entries of a ResizeObserver callback: a height for each row reported
MeasureEntries ==
    UNION { [S -> MeasuredValues] : S \in (SUBSET MeasuredRows) \ {{}} }

ScrollOffsets == {300}

\* the largest offset the container can be scrolled to (scrollHeight -
\* clientHeight) when a smooth scroll ends: the layout gives it
ScrollLimits == {300}

\* the entry a card has persisted at time 0 for a series of one point
StoredEntry ==
    [kind |-> "json",
     data |-> <<convertPoint([timestamp |-> Num(2), liquidity |-> Num(5)])>>,
     timestamp |-> 0]

\* the addresses of the records of a batch
batchAddresses(batch) ==
    {batch[i].tokenAddress : i \in {j \in 1..Len(batch) : Has(batch[j], "tokenAddress")}}

\* The list was created by one batch and showed its rows, whose histories
\* were fetched (each response held no point); items are the virtual items
\* now. Cards shown on earlier visits have persisted their series
MountedWith(batch, items) ==
    /\ tokens = MergeBatch(EmptyStore, batch)
    /\ isConnected = TRUE
    /\ connectionError = "null"
    /\ isLoading = FALSE
    /\ hasReceivedInitialTokens = TRUE
    /\ lastMsg = [type |-> "BATCH_PROCESSED", data |-> batch]
    /\ prev = [tokens |-> EmptyStore, isConnected |-> TRUE, same |-> FALSE]
    /\ log = batch
    /\ posted = <<>>
    /\ filters = DefaultFilters
    /\ filteredTokens = project(ObjectValues(tokens), filters)
    /\ TrendIdle
    /\ now = 0
    /\ storage = [a \in CardKeys |-> StoredEntry]
    /\ cards = [a \in CardKeys |-> Unmounted]
    /\ lookups = {}
    /\ started = {}
    /\ settled = NothingSettled
    /\ tokenHistories = [a \in batchAddresses(batch) |-> [history |-> <<>>, storedAt |-> 0]]
    /\ tokenTrends = [a \in batchAddresses(batch) |->
                        [liquidity |-> calculateTrend(<<>>, "liquidity"),
                         holders |-> calculateTrend(<<>>, "holders")]]
    /\ listFetches = <<>>
    /\ window = items
    /\ expandedTokens = {}
    /\ measuredHeights = <<>>
    /\ measuredFor = <<>>
    /\ scrollTop = 0
    /\ smooth = NoScroll
    /\ raf = <<>>
    /\ lastOp = OtherOp
    /\ resetPending = FALSE
    /\ OtherIdle

\* the requests of the list are answered, each with a history
ViewResponses == {r \in ListResponses : r.kind = "headers"}

\* each with a history of points
ViewBodies == {r \in ListBodies : r.kind = "json" /\ r.body.points \in ListHistories}

\* the row that is clicked: the one the list starts with
ViewClicks == {List1.tokenAddress}

\* The list is mounted with one row, which is among the virtual items
InitView == MountedWith(<<List1>>, {0})

\* The virtual items of a list of n rows that is shorter than the overscan of
\* the virtualizer (overscan: 5): every row, or none while the scroll element
\* has no size
ShortWindows(n) == {{}, 0..(n - 1)}

\* the sort control: the rows are the same in another order
SortBy(sortBy, items) ==
    /\ items \in ShortWindows(Len(rows))
    /\ UpdateFilters("sortBy", sortBy, items)

\* a batch of records the store does not hold yet
NewBatch(data, items) ==
    /\ \A i \in 1..Len(data) : KeyOf(data[i]) \notin DOMAIN tokens.items
    /\ BatchProcessed(data, items)
    /\ items \in ShortWindows(Len(filteredTokens'.value))

NextView ==
    \/ \E sortBy \in ViewSorts, items \in Windows(MaxRows) : SortBy(sortBy, items)
    \/ \E data \in ViewBatches, items \in Windows(MaxRows) : NewBatch(data, items)
    \/ \E entries \in MeasureEntries : Measure(entries)
    \/ HandleResize
    \/ Frame
    \/ \E limit \in ScrollLimits : SmoothScroll(limit)
    \/ \E offset \in ScrollOffsets : Scroll(offset)
    \/ \E a \in ViewClicks : HandleTokenClick(a)
    \/ \E i \in 1..MaxFetches, response \in ViewResponses : ListRespond(i, response)
    \/ \E i \in 1..MaxFetches, response \in ViewBodies : ListRead(i, response)

SpecView == InitView /\ [][NextView]_vars

\* The expansion set under row toggles, the expand/collapse-all button,
\* filter changes (Hide Honeypots hides a row), resizes and batches
\* a record that has no tokenAddress (the store keeps it under the key
\* undefined and the list shows its row)
Nameless == Without(List1, "tokenAddress")

ExpandBatches == {<<Nameless>>}

\* type ViewMode = 'list' | 'grid' | 'chart'
ViewModes == {"list", "grid", "chart"}

\* The list is mounted with two rows
InitExpand == MountedWith(<<List1, List2>>, {})

NextExpand ==
    \/ \E a \in CardKeys : HandleTokenClick(a)
    \/ ExpandAll
    \/ \E hide \in BOOLEAN : UpdateFilters("hideHoneypots", hide, {})
    \/ HandleResize
    \/ Frame
    \/ \E data \in ExpandBatches : BatchProcessed(data, {})
    \/ \E mode \in ViewModes : SetViewMode(mode)

SpecExpand == InitExpand /\ [][NextExpand]_vars

\* the values typed in the Min Holders field
ChosenHolders == {0, 60}

\* FilterStates the controls reach from the defaults
ChosenFilters ==
    { [DefaultFilters EXCEPT !.hideHoneypots = hh, !.minHolders = mh, !.sortBy = sb] :
      hh \in BOOLEAN, mh \in ChosenHolders, sb \in ViewSorts }

\* What localStorage can hold under tokenListFilters when the page is
\* loaded: nothing, the empty string, text that is not JSON, JSON that is
\* not a FilterState (null, an object of another kind, a snapshot with some
\* of the properties), and a snapshot written by updateFilters
Snapshots ==
    { NoSnapshot,
      [kind |-> "empty", value |-> [none |-> TRUE]],
      [kind |-> "invalid", value |-> [none |-> TRUE]],
      stringify([isNull |-> TRUE]),
      stringify([theme |-> "dark"]),
      stringify([sortBy |-> Holders, hideHoneypots |-> TRUE]) }
    \cup { stringify(f) : f \in ChosenFilters }

\* What localStorage can hold under tokenHistoryCache when the page is
\* loaded (the times are on the clock of now): nothing, text that is not
\* JSON, null, a value without data, and a cache of the history of the first
\* row written now, just under five minutes ago and five minutes ago
HistoryCaches ==
    { NoCache,
      [kind |-> "invalid", value |-> [none |-> TRUE]],
      stringify([isNull |-> TRUE]),
      stringify([timestamp |-> 0]) }
    \cup { stringify([timestamp |-> t, data |-> [a \in {List1.tokenAddress} |-> h]]) :
             t \in {0, 1 - HistoryCacheExpiry, 0 - HistoryCacheExpiry},
             h \in ListHistories }

\* The page has been loaded with the entries tokenListFilters and
\* tokenHistoryCache in localStorage;
\* the list is created by the first batch, and anew by the first batch after
\* a connection was lost
InitFilters ==
    /\ InitApp
    /\ TrendIdle
    /\ CardIdle
    /\ ListIdle
    /\ savedFilters \in Snapshots
    /\ historyCache \in HistoryCaches
    /\ viewMode = "list"
    /\ throttle = NoThrottle

\* the virtual items of a list that is created: none, or the first row
AppWindows == {{}, {0}}

FilterStatuses == {d \in StatusData : ~d.absent /\ d.error = "null"}

NextFilters ==
    \/ \E hide \in BOOLEAN : UpdateFilters("hideHoneypots", hide, {})
    \/ \E holders \in ChosenHolders : UpdateFilters("minHolders", holders, {})
    \/ \E sortBy \in ViewSorts : UpdateFilters("sortBy", sortBy, {})
    \/ \E data \in FilterStatuses : ConnectionStatus(data)
    \/ \E items \in AppWindows : BatchProcessed(<<List1>>, items)

SpecFilters == InitFilters /\ [][NextFilters]_vars

\* The list shows two rows that were merged in one batch

\* the clock is followed in steps of the expiry time
HistorySteps == {HistoryCacheExpiry}

InitHistory ==
    /\ tokens = MergeBatch(EmptyStore, <<List1, List2>>)
    /\ isConnected = TRUE
    /\ connectionError = "null"
    /\ isLoading = FALSE
    /\ hasReceivedInitialTokens = TRUE
    /\ lastMsg = [type |-> "BATCH_PROCESSED", data |-> <<List1, List2>>]
    /\ prev = [tokens |-> EmptyStore, isConnected |-> TRUE, same |-> FALSE]
    /\ log = <<List1, List2>>
    /\ posted = <<>>
    /\ filters = DefaultFilters
    /\ filteredTokens = project(ObjectValues(tokens), filters)
    /\ ExtIdle

NextHistory ==
    \/ \E items \in Windows(MaxRows) : SetWindow(items)
    \/ \E i \in 1..MaxFetches, response \in ListResponses : ListRespond(i, response)
    \/ \E i \in 1..MaxFetches, response \in ListBodies : ListRead(i, response)
    \/ ExpandAll
    \/ \E mode \in ViewModes : SetViewMode(mode)
    \/ \E step \in HistorySteps :
          /\ Tick(step)
          /\ UNCHANGED <<appVars, listVars, trendVars, otherVars, historyVars, viewVars>>

SpecHistory == InitHistory /\ [][NextHistory]_vars

----------------------------------------------------------------------------
(* utils/throttle: throttle(func, wait) *)

\* Date.now() when the page was loaded (milliseconds since 1970, never 0)
Epoch == 1000

\* Date.now()
DateNow == Epoch + now

\* if (!previous) previous = now
reference(previous, t) == IF previous = 0 THEN t ELSE previous

\* const remaining = wait - (now - previous)
remaining(wait, t, previous) == wait - (t - previous)

\* Mutant: a call made while a timer is pending replaces it
scheduledLatestMutant(current, timer) == timer

\* else if (!timeout) timeout = setTimeout(..., remaining)
scheduled(current, timer) == IF current.set THEN current ELSE timer

\* Mutant: the timer callback leaves previous as it was
firedPreviousKeepMutant(previous, t) == previous

\* previous = Date.now() in the timer callback
firedPrevious(previous, t) == t

\* func(...args) at time t, with the time since the invocation before it
invoke(th, t, arg) ==
    [th EXCEPT !.ran = TRUE, !.ranArg = arg, !.last = t,
               !.gap = IF th.last = -1 THEN -1 ELSE t - th.last]

\* throttled(...args): the arguments of the call are its number
Throttled ==
    /\ throttle.calls < MaxThrottleCalls
    /\ LET t == DateNow
           arg == throttle.calls + 1
           p == reference(throttle.previous, t)
           r == remaining(throttle.wait, t, p)
           called == [throttle EXCEPT !.calls = arg, !.op = "call", !.arg = arg,
                                      !.before = throttle.timeout,
                                      !.early = (r > 0 /\ r <= throttle.wait),
                                      !.ran = FALSE, !.ranArg = 0]
       IN throttle' =
            IF r <= 0 \/ r > throttle.wait
            THEN invoke([called EXCEPT !.timers = @ \ {throttle.timeout},
                                       !.timeout = NoTimer,
                                       !.previous = t], t, arg)
            ELSE LET timer == [set |-> TRUE, arg |-> arg, at |-> t + r]
                     next == scheduled(throttle.timeout, timer)
                 IN [called EXCEPT !.previous = p,
                                   !.timeout = next,
                                   !.timers = IF next = throttle.timeout THEN @
                                              ELSE @ \cup {next}]
    /\ UNCHANGED <<appVars, listVars, trendVars, cardVars, historyVars, viewVars, savedFilters, historyCache, viewMode>>

\* the event loop runs the callback of a timer, at its time or later
TimerFires(timer) ==
    /\ timer \in throttle.timers
    /\ DateNow >= timer.at
    /\ throttle' = invoke([throttle EXCEPT !.timers = @ \ {timer},
                                           !.timeout = NoTimer,
                                           !.previous = firedPrevious(@, DateNow),
                                           !.op = "fire", !.arg = 0,
                                           !.before = timer, !.early = FALSE],
                          DateNow, timer.arg)
    /\ UNCHANGED <<appVars, listVars, trendVars, cardVars, historyVars, viewVars, savedFilters, historyCache, viewMode>>

\* throttled.cancel()
Cancel ==
    /\ throttle' = [throttle EXCEPT !.timers = @ \ {throttle.timeout},
                                    !.timeout = NoTimer,
                                    !.previous = 0,
                                    !.op = "cancel", !.arg = 0,
                                    !.before = throttle.timeout, !.early = FALSE,
                                    !.ran = FALSE, !.ranArg = 0]
    /\ UNCHANGED <<appVars, listVars, trendVars, cardVars, historyVars, viewVars, savedFilters, historyCache, viewMode>>

\* a millisecond passes
ThrottleTick ==
    /\ now < MaxThrottleTime
    /\ now' = now + 1
    /\ UNCHANGED <<appVars, listVars, trendVars, storage, cards, lookups, started,
                   settled, historyVars, viewVars, otherVars>>

\* the wait of the throttled function
Waits == {1, 3}

InitThrottle ==
    /\ InitApp
    /\ TrendIdle
    /\ CardIdle
    /\ ListIdle
    /\ savedFilters = NoSnapshot
    /\ historyCache = NoCache
    /\ viewMode = "list"
    /\ throttle \in {[NoThrottle EXCEPT !.wait = w] : w \in Waits}

NextThrottle ==
    \/ Throttled
    \/ \E timer \in throttle.timers : TimerFires(timer)
    \/ Cancel
    \/ ThrottleTick

SpecThrottle == InitThrottle /\ [][NextThrottle]_vars

----------------------------------------------------------------------------
(* Token store: claims *)

LastIndexOf(k) == CHOOSE i \in 1..Len(log) :
                     KeyOf(log[i]) = k /\ \A j \in (i + 1)..Len(log) : KeyOf(log[j]) # k

\* C1: merge idempotence -- when the BATCH_PROCESSED message just processed
\* repeats the message processed immediately before it, the store (address ->
\* record, riskLevel included) equals the store after the first of the two merges.
MergeIdempotent ==
    (lastMsg.type = "BATCH_PROCESSED" /\ prev.same) => tokens.items = prev.tokens.items

MergeIdempotentWitness ==
    /\ lastMsg.type = "BATCH_PROCESSED"
    /\ prev.same
    /\ Len(lastMsg.data) = 2
    /\ KeyOf(lastMsg.data[1]) # KeyOf(lastMsg.data[2])
    /\ Has(lastMsg.data[1], "riskLevel")
    /\ Cardinality(DOMAIN tokens.items) = 2

\* C2: last writer wins -- with no disconnect since the store was last empty,
\* the store holds one record per key, its keys are the keys of the merged
\* records, and the record under each key is the complete replacement of the
\* last merged record with that key: exactly that record's properties, with
\* that record's values, plus riskLevel.
LastWriterWins ==
    /\ \A i, j \in 1..Len(tokens.keys) : tokens.keys[i] = tokens.keys[j] => i = j
    /\ {tokens.keys[i] : i \in 1..Len(tokens.keys)} = DOMAIN tokens.items
    /\ DOMAIN tokens.items = {KeyOf(log[i]) : i \in 1..Len(log)}
    /\ \A k \in DOMAIN tokens.items :
          LET last == log[LastIndexOf(k)]
          IN /\ DOMAIN tokens.items[k] = DOMAIN last \cup {"riskLevel"}
             /\ \A f \in DOMAIN last \ {"riskLevel"} : tokens.items[k][f] = last[f]

LastWriterWinsWitness ==
    /\ lastMsg.type = "BATCH_PROCESSED"
    /\ \E i, j \in 1..Len(log) :
          /\ i < j
          /\ j = LastIndexOf(KeyOf(log[j]))
          /\ KeyOf(log[i]) = KeyOf(log[j])
          /\ Has(log[i], "gpLpHolders")
          /\ ~Has(log[j], "gpLpHolders")
          /\ ~Has(tokens.items[KeyOf(log[j])], "gpLpHolders")

\* C3: every stored record's riskLevel is the classification of that record's
\* own other properties, whatever riskLevel the inbound record carried.
RiskNeverStale ==
    \A k \in DOMAIN tokens.items :
        tokens.items[k].riskLevel = riskLevel(Without(tokens.items[k], "riskLevel"))

RiskNeverStaleWitness ==
    \E i \in 1..Len(log) :
        /\ i = LastIndexOf(KeyOf(log[i]))
        /\ Has(log[i], "riskLevel")
        /\ log[i].riskLevel = "safe"
        /\ tokens.items[KeyOf(log[i])].riskLevel = "danger"

HasDangerSignal(token) ==
    \/ token.hpIsHoneypot
    \/ \E f \in DangerFlags : token[f]
    \/ ~token.gpIsOpenSource

HasWarningSignal(token) ==
    \/ \E f \in WarningFlags : token[f]
    \/ token.gpBuyTax > 10
    \/ token.gpSellTax > 10

\* C4 (as amended): a merged record is danger exactly when it is a honeypot,
\* has one of the signals take-back-ownership, hidden owner, owner can change
\* balances, airdrop scam, honeypot by the same creator, fake token, or is not
\* open source; otherwise warning exactly when it has one of proxy, mintable,
\* slippage modifiable, personal slippage modifiable, cannot sell all, trading
\* cooldown, transfer pausable, or a buy or sell tax above 10; otherwise safe.
RiskPrecedence ==
    \A k \in DOMAIN tokens.items :
        LET token == tokens.items[k]
        IN /\ token.riskLevel = "danger" <=> HasDangerSignal(token)
           /\ token.riskLevel = "warning" <=>
                 (~HasDangerSignal(token) /\ HasWarningSignal(token))
           /\ token.riskLevel = "safe" <=>
                 (~HasDangerSignal(token) /\ ~HasWarningSignal(token))

RiskPrecedenceWitness ==
    \E k \in DOMAIN tokens.items :
        /\ ~tokens.items[k].hpIsHoneypot
        /\ tokens.items[k].gpHiddenOwner
        /\ tokens.items[k].gpIsMintable
        /\ tokens.items[k].gpSellTax > 10
        /\ tokens.items[k].riskLevel = "danger"

ClaimedDangerSignal(token) ==
    \/ token.hpIsHoneypot
    \/ token.gpCanTakeBackOwnership
    \/ token.gpHiddenOwner
    \/ token.gpOwnerChangeBalance

ClaimedWarningSignal(token) ==
    \/ token.gpIsProxy
    \/ token.gpIsMintable
    \/ token.gpBuyTax > 10
    \/ token.gpSellTax > 10
    \/ token.gpSlippageModifiable
    \/ token.gpPersonalSlippageModifiable

\* C4 (as claimed): danger exactly for a honeypot or ownership-abuse signal,
\* otherwise warning exactly for a proxy, mintable, high-tax or
\* slippage-mutable signal, otherwise safe.
ClaimedRiskPrecedence ==
    \A k \in DOMAIN tokens.items :
        LET token == tokens.items[k]
        IN /\ token.riskLevel = "danger" <=> ClaimedDangerSignal(token)
           /\ token.riskLevel = "warning" <=>
                 (~ClaimedDangerSignal(token) /\ ClaimedWarningSignal(token))
           /\ token.riskLevel = "safe" <=>
                 (~ClaimedDangerSignal(token) /\ ~ClaimedWarningSignal(token))

\* C5: a CONNECTION_STATUS with connected = false processed while connected
\* leaves the store empty; any other CONNECTION_STATUS leaves it unchanged.
ClearOnDisconnect ==
    lastMsg.type = "CONNECTION_STATUS" =>
        IF ~lastMsg.data.absent /\ prev.isConnected /\ ~lastMsg.data.connected
        THEN tokens = EmptyStore
        ELSE tokens = prev.tokens

ClearOnDisconnectWitness ==
    /\ lastMsg.type = "CONNECTION_STATUS"
    /\ ~lastMsg.data.absent
    /\ ~lastMsg.data.connected
    /\ prev.isConnected
    /\ Len(prev.tokens.keys) = 2
    /\ tokens = EmptyStore

\* C6 (as claimed): a BATCH_PROCESSED processed while isConnected is false
\* does not change the store.
NoMergeWhileDisconnected ==
    (lastMsg.type = "BATCH_PROCESSED" /\ ~isConnected) => tokens = prev.tokens

\* C7 (as claimed): a record without an address adds no entry -- every key of
\* the store is the address of a merged record that has one.
MalformedRecordDropped ==
    \A k \in DOMAIN tokens.items :
        \E i \in 1..Len(log) : Has(log[i], "tokenAddress") /\ log[i].tokenAddress = k

----------------------------------------------------------------------------
(* Filter/sort pipeline: claims *)

PropsTokens == ObjectValues(tokens)

\* the share of liquidity held by locked holders, 0 when the list is absent or unreadable
LockedShare(token) ==
    IF Has(token, "gpLpHolders") /\ token.gpLpHolders.json = "array"
    THEN totalLocked(token.gpLpHolders.holders) ELSE 0

SearchMatches(token, searchQuery) ==
    \E p \in {"tokenName", "tokenSymbol", "tokenAddress"} \cap DOMAIN token :
        includes(toLowerCase(token[p]), toLowerCase(searchQuery))

\* a record satisfies every enabled predicate of the FilterState
SatisfiesEnabled(token, f) ==
    /\ f.hideHoneypots => ~token.hpIsHoneypot
    /\ f.showOnlyHoneypots => token.hpIsHoneypot
    /\ f.hideDanger => token.riskLevel # "danger"
    /\ f.hideWarning => token.riskLevel # "warning"
    /\ f.showOnlySafe => token.riskLevel = "safe"
    /\ f.hideNotRenounced => token.gpOwnerAddress = ZeroAddress
    /\ f.hideUnlockedLiquidity => LockedShare(token) >= 90
    /\ f.minHolders > 0 => token.gpHolderCount >= f.minHolders
    /\ f.minLiquidity > 0 => token.hpLiquidityAmount >= f.minLiquidity
    /\ f.searchQuery # <<>> => SearchMatches(token, f.searchQuery)

Satisfying == SelectSeq(PropsTokens, LAMBDA token : SatisfiesEnabled(token, filters))

IsProjection(value) ==
    /\ Len(value) <= filters.maxRecords
    /\ LET sorted == sort(Satisfying, filters.sortBy)
       IN value = SubSeq(sorted, 1, IF filters.maxRecords < Len(sorted)
                                    THEN filters.maxRecords ELSE Len(sorted))

\* C8 (as claimed): for every store snapshot and FilterState the memo yields
\* the first maxRecords elements of the sorted sequence of exactly the store
\* records that satisfy every enabled predicate.
FilterConjunction ==
    filteredTokens.status # "pending" =>
        (filteredTokens.status = "ok" /\ IsProjection(filteredTokens.value))

\* The pipeline computes that sequence whenever it completes, and fails to
\* complete only when a search query meets a stored record without tokenAddress.
FilterConjunctionUnlessThrown ==
    /\ filteredTokens.status = "ok" => IsProjection(filteredTokens.value)
    /\ filteredTokens.status = "TypeError" =>
          /\ filters.searchQuery # <<>>
          /\ \E k \in DOMAIN tokens.items : ~Has(tokens.items[k], "tokenAddress")

FieldOf(sortBy) ==
    CASE sortBy \in {Age, Age \o AscSuffix} -> "age"
      [] sortBy \in {Holders, Holders \o AscSuffix} -> "holders"
      [] sortBy \in {Liquidity, Liquidity \o AscSuffix} -> "liquidity"
      [] sortBy \in {SafetyScore, SafetyScore \o AscSuffix} -> "safetyScore"

SortKey(token) ==
    CASE FieldOf(filters.sortBy) = "age" -> token.tokenAgeHours
      [] FieldOf(filters.sortBy) = "holders" -> token.gpHolderCount
      [] FieldOf(filters.sortBy) = "liquidity" -> token.hpLiquidityAmount
      [] FieldOf(filters.sortBy) = "safetyScore" ->
            (CASE token.riskLevel = "safe" -> 2
               [] token.riskLevel = "warning" -> 1
               [] token.riskLevel = "danger" -> 0)

\* position of a record in the store snapshot handed to the list
SnapshotIndex(token) == CHOOSE i \in 1..Len(PropsTokens) : PropsTokens[i] = token

\* C9: stable sort -- two records of the projected sequence with equal sort
\* keys under the selected field appear in the order they have in the store
\* snapshot, for every sort field and direction.
StableSort ==
    filteredTokens.status = "ok" =>
        \A i, j \in 1..Len(filteredTokens.value) :
            (i < j /\ SortKey(filteredTokens.value[i]) = SortKey(filteredTokens.value[j]))
                => SnapshotIndex(filteredTokens.value[i]) < SnapshotIndex(filteredTokens.value[j])

StableSortWitness ==
    /\ filteredTokens.status = "ok"
    /\ Len(filteredTokens.value) = 3
    /\ SortKey(filteredTokens.value[2]) = SortKey(filteredTokens.value[3])
    /\ SortKey(filteredTokens.value[1]) # SortKey(filteredTokens.value[2])
    /\ SnapshotIndex(filteredTokens.value[1]) = 3
    /\ SnapshotIndex(filteredTokens.value[2]) = 1

KeysNonIncreasing(value) ==
    \A i, j \in 1..Len(value) : i < j => SortKey(value[i]) >= SortKey(value[j])

KeysNonDecreasing(value) ==
    \A i, j \in 1..Len(value) : i < j => SortKey(value[i]) <= SortKey(value[j])

\* C10 (as amended): the projected sequence is ordered by the key of the field
\* named in sortBy, in the direction sortBy itself encodes (sortDirection is
\* not read): for holders, liquidity and safetyScore the keys are
\* non-increasing, and non-decreasing with the suffix _asc; for age the
\* tokenAgeHours are non-decreasing (newest first), and non-increasing for
\* age_asc (oldest first).
SortOrderBySuffix ==
    filteredTokens.status = "ok" =>
        IF filters.sortBy \in {Holders, Liquidity, SafetyScore, Age \o AscSuffix}
        THEN KeysNonIncreasing(filteredTokens.value)
        ELSE KeysNonDecreasing(filteredTokens.value)

SortOrderBySuffixWitness ==
    /\ filteredTokens.status = "ok"
    /\ filters.sortBy = Age
    /\ filters.sortDirection = "desc"
    /\ Len(filteredTokens.value) = 3
    /\ SortKey(filteredTokens.value[1]) < SortKey(filteredTokens.value[2])
    /\ SortKey(filteredTokens.value[2]) < SortKey(filteredTokens.value[3])
    /\ SnapshotIndex(filteredTokens.value[1]) > SnapshotIndex(filteredTokens.value[3])

\* C10 (as claimed): the keys of the selected field are non-increasing along
\* the output when sortDirection is desc and non-decreasing when it is asc.
SortOrderByDirection ==
    filteredTokens.status = "ok" =>
        IF filters.sortDirection = "desc"
        THEN KeysNonIncreasing(filteredTokens.value)
        ELSE KeysNonDecreasing(filteredTokens.value)

----------------------------------------------------------------------------
(* calculateTrend: claims *)

TrendDone == trend.result \notin {"none", "pending"}

\* the position of point i when the points are ordered by timestamp
RankOf(history, i) ==
    Cardinality({j \in 1..Len(history) :
                    \/ history[j].timestamp < history[i].timestamp
                    \/ history[j].timestamp = history[i].timestamp /\ j < i})

MetricDefined(history, type) ==
    \A i \in 1..Len(history) : Has(history[i], metricField(type))

\* The least-squares slope of y against the position, by the textbook formula
\* (n sum(xy) - sum(x) sum(y)) / (n sum(x^2) - sum(x)^2), as num / (den * Scale)
ReferenceSlope(history, type) ==
    LET n == Len(history)
        x == [i \in 1..n |-> RankOf(history, i)]
        y == [i \in 1..n |-> history[i][metricField(type)]]
    IN [num |-> n * Sum([i \in 1..n |-> x[i] * y[i]]) - Sum(x) * Sum(y),
        den |-> n * Sum([i \in 1..n |-> x[i] * x[i]]) - Sum(x) * Sum(x)]

\* the same points with the gaps between their timestamps evened out
Regapped(history) ==
    [i \in 1..Len(history) |->
        [history[i] EXCEPT !.timestamp =
            Cardinality({t \in Timestamps : t <= history[i].timestamp})]]

\* C11: calculateTrend follows the reference policy -- stagnant for fewer than
\* 2 points; otherwise, with the points ordered by timestamp and x their
\* position, stagnant when |slope| < 0.05, up when slope >= 0.05 and down when
\* slope <= -0.05; and the result is the same for the history whose timestamps
\* keep their order but not their gaps.
TrendPolicy ==
    TrendDone =>
        /\ Len(trend.history) < 2 => trend.result = "stagnant"
        /\ (Len(trend.history) >= 2 /\ MetricDefined(trend.history, trend.type)) =>
              LET s == ReferenceSlope(trend.history, trend.type)
              IN /\ 20 * Abs(s.num) < s.den * Scale => trend.result = "stagnant"
                 /\ 20 * s.num >= s.den * Scale => trend.result = "up"
                 /\ 20 * s.num <= -(s.den * Scale) => trend.result = "down"
        /\ trend.result = calculateTrend(Regapped(trend.history), trend.type)

\* a history of three unordered, unevenly spaced points whose slope is under
\* the threshold without being zero
TrendPolicyWitness ==
    /\ TrendDone
    /\ Len(trend.history) = 3
    /\ trend.type = "liquidity"
    /\ MetricDefined(trend.history, trend.type)
    /\ trend.history[1].timestamp > trend.history[2].timestamp
    /\ trend.history[3].timestamp - trend.history[1].timestamp > 1
    /\ ReferenceSlope(trend.history, trend.type).num > 0
    /\ trend.result = "stagnant"

\* the metric values in timestamp order
Series ==
    [k \in 1..Len(trend.history) |->
        LET i == CHOOSE j \in 1..Len(trend.history) : RankOf(trend.history, j) = k - 1
        IN trend.history[i][metricField(trend.type)]]

StepsAtLeast(series, d) == \A i \in 1..(Len(series) - 1) : series[i + 1] - series[i] >= d

StepsAtMost(series, d) == \A i \in 1..(Len(series) - 1) : series[i + 1] - series[i] <= d

HasSeries ==
    TrendDone /\ Len(trend.history) >= 2 /\ MetricDefined(trend.history, trend.type)

\* C12 as claimed: a strictly increasing series of at least 2 points yields
\* up, a strictly decreasing one down, a constant one stagnant.
TrendMonotone ==
    HasSeries =>
        /\ StepsAtLeast(Series, 1) => trend.result = "up"
        /\ StepsAtMost(Series, -1) => trend.result = "down"
        /\ (StepsAtLeast(Series, 0) /\ StepsAtMost(Series, 0)) => trend.result = "stagnant"

\* the least number of units a step of 0.05 or more has
ThresholdStep == CHOOSE d \in 1..Scale :
                    /\ threshold.den * d >= threshold.num * Scale
                    /\ threshold.den * (d - 1) < threshold.num * Scale

\* C12 (amended): a series of at least 2 points in which every value exceeds
\* the one before by 0.05 or more yields up, one in which every value is
\* below the one before by 0.05 or more yields down, and a constant series
\* yields stagnant.
TrendMonotoneByThreshold ==
    HasSeries =>
        /\ StepsAtLeast(Series, ThresholdStep) => trend.result = "up"
        /\ StepsAtMost(Series, -ThresholdStep) => trend.result = "down"
        /\ (StepsAtLeast(Series, 0) /\ StepsAtMost(Series, 0)) => trend.result = "stagnant"

\* three holder counts given out of order that rise with time
TrendMonotoneByThresholdWitness ==
    /\ HasSeries
    /\ trend.type = "holders"
    /\ Len(trend.history) = 3
    /\ trend.history[1].timestamp > trend.history[3].timestamp
    /\ StepsAtLeast(Series, ThresholdStep)
    /\ trend.result = "up"

----------------------------------------------------------------------------
(* History cache: claims *)

\* the point carries a number under one of the names
Carries(point, names) == \E f \in names : Has(point, f) /\ point[f].t = "number"

\* a point with a numeric timestamp and at least one of the two tracked metrics
ValidPoint(point) ==
    /\ ~Has(point, "isNull")
    /\ Carries(point, {"timestamp", "time"})
    /\ \/ Carries(point, {"liquidity", "total_liquidity", "totalLiquidity"})
       \/ Carries(point, {"holders", "holder_count", "holderCount"})

ValidIndices(series) == {i \in 1..Len(series) : ValidPoint(series[i])}

StampOf(point) == IF Has(point, "timestamp") THEN point.timestamp.v ELSE point.time.v

\* the entry holds the valid points of the series, each once, in
\* non-decreasing timestamp order, stamped with the current time
HoldsValidPoints(entry, series) ==
    /\ entry.kind = "json"
    /\ entry.timestamp = now
    /\ Len(entry.data) = Cardinality(ValidIndices(series))
    /\ \A k \in 1..(Len(entry.data) - 1) :
          entry.data[k].timestamp.v <= entry.data[k + 1].timestamp.v
    /\ \A i \in ValidIndices(series) :
          \E k \in 1..Len(entry.data) : entry.data[k].timestamp = Num(StampOf(series[i]))

\* C14 as claimed: when a card's fetch delivers a series with at least one
\* valid point, the persisted entry then holds exactly the valid points in
\* timestamp order, stamped with the current time, whatever invalid points
\* (null entries included) the series also carries.
PopulateKeepsValidPoints ==
    (/\ settled.by \in {"card", "disposed"}
     /\ settled.fetched
     /\ ValidIndices(settled.series) # {}) =>
        HoldsValidPoints(storage[settled.address], settled.series)

\* The same for the series without a null entry (holds: the null entry alone
\* makes the code discard the series)
PopulateKeepsValidPointsUnlessNull ==
    (/\ settled.by \in {"card", "disposed"}
     /\ settled.fetched
     /\ ValidIndices(settled.series) # {}
     /\ \A i \in 1..Len(settled.series) : ~Has(settled.series[i], "isNull")) =>
        HoldsValidPoints(storage[settled.address], settled.series)

\* the time-to-live of a cached history series
TimeToLive == 5 * 60 * 1000

\* a lookup used the cached series exactly when the entry was present and
\* younger than the time-to-live, and a miss started a fetch for the address
Honoured(lookup) ==
    /\ lookup.hit <=> (lookup.present /\ lookup.age < TimeToLive)
    /\ ~lookup.hit => [by |-> lookup.cache, address |-> lookup.address] \in started

\* C13 as claimed: every lookup of a history cache (the persisted entry of a
\* card, the in-memory map of the list) uses the cached series only when its
\* stamp is less than 5 minutes old, and treats an absent or older entry as a
\* miss that starts a fresh fetch for the address.
LookupHonoursTimeToLive == \A lookup \in lookups : Honoured(lookup)

\* The same for the lookups of the persisted entries alone
CardLookupHonoursTimeToLive ==
    \A lookup \in lookups : lookup.cache = "card" => Honoured(lookup)

\* the caller of the settled fetch shows an error: the error signal of the
\* card (a disposed card has set its own, which is kept no further);
\* fetchTokenHistory of the list only logs, the list keeps no error state
\* for a history
ErrorShown(by, address) ==
    CASE by = "card" -> cards[address].error # "null"
      [] by = "disposed" -> TRUE
      [] OTHER -> FALSE

\* the caller of the settled fetch is no longer loading (the list keeps no
\* loading state for a history)
LoadingEnded(by, address) ==
    IF by = "card" THEN ~cards[address].isLoading ELSE TRUE

\* C15 as claimed: when a history fetch has just failed or timed out, the
\* persisted entries and the in-memory history and trend maps are what they
\* were before, the caller is in an error state and its loading has ended.
FailedFetchKeepsCache ==
    settled.failed =>
        /\ storage = settled.storage
        /\ tokenHistories = settled.histories
        /\ tokenTrends = settled.trends
        /\ ErrorShown(settled.by, settled.address)
        /\ LoadingEnded(settled.by, settled.address)

\* The same for the fetches of the cards alone
FailedCardFetchKeepsCache ==
    (settled.failed /\ settled.by \in {"card", "disposed"}) =>
        /\ storage = settled.storage
        /\ tokenHistories = settled.histories
        /\ tokenTrends = settled.trends
        /\ ErrorShown(settled.by, settled.address)
        /\ LoadingEnded(settled.by, settled.address)

\* the address belongs to a row among the virtual items
Visible(address) == findIndex(rows, address) \in window

\* the cache the fetching component consults holds a usable series
Cached(by, address) ==
    IF by = "card" THEN cardCacheHit(storage[address])
    ELSE address \in DOMAIN tokenHistories

\* C16 as claimed: every history fetch just started is for an address whose
\* row is inside the visible window and for which no history is cached.
FetchOnlyVisibleUncached ==
    \A fetch \in started :
        Visible(fetch.address) /\ ~Cached(fetch.by, fetch.address)

\* The same for the fetches of the visible-token effect alone
EffectFetchOnlyVisibleUncached ==
    \A fetch \in started :
        fetch.by = "list" => (Visible(fetch.address) /\ ~Cached(fetch.by, fetch.address))

----------------------------------------------------------------------------
(* Measured heights and scroll position: claims *)

\* the fixed estimate of a row by its expansion state
FixedEstimate(index) ==
    IF addressAt(rows, index) \in expandedTokens THEN 800 ELSE 42

\* C17 as claimed: for every row, estimateSize returns the measured height
\* recorded for its index whenever one is recorded, whatever its value, and
\* otherwise 42 for a collapsed and 800 for an expanded row.
EstimateReturnsMeasured ==
    \A index \in 0..(Len(rows) - 1) :
        estimateSize(index) = IF index \in DOMAIN measuredHeights
                              THEN measuredHeights[index]
                              ELSE FixedEstimate(index)

\* The same for recorded heights other than 0
EstimateReturnsMeasuredUnlessZero ==
    \A index \in 0..(Len(rows) - 1) :
        (index \in DOMAIN measuredHeights => measuredHeights[index] # 0) =>
            estimateSize(index) = IF index \in DOMAIN measuredHeights
                                  THEN measuredHeights[index]
                                  ELSE FixedEstimate(index)

\* C18: immediately after updateFilters the measured-height map is empty,
\* whatever heights were recorded before.
FilterChangeClearsHeights ==
    lastOp.name = "updateFilters" => measuredHeights = <<>>

\* updateFilters has just run on a list with a recorded height
FilterChangeClearsHeightsWitness ==
    /\ lastOp.name = "updateFilters"
    /\ lastOp.heights > 0
    /\ measuredHeights = <<>>

\* C19 as claimed: from updateFilters until the next user scroll or row
\* toggle the scroll offset is 0, whatever animation frame callbacks were
\* requested before the filter change.
FilterChangeKeepsTop == resetPending => scrollTop = 0

\* C20 as claimed: a measured height that estimateSize returns for a row was
\* recorded for the token that is at that index now.
HeightsOfCurrentRows ==
    \A index \in DOMAIN measuredHeights :
        (index < Len(rows) /\ estimateSize(index) = measuredHeights[index]) =>
            measuredFor[index] = addressAt(rows, index)

----------------------------------------------------------------------------
(* App: request of the initial tokens: claims *)

\* the message is a CONNECTION_STATUS that carries data
IsStatus(msg) == msg.type = "CONNECTION_STATUS" /\ ~msg.data.absent

\* C27: processing CONNECTION_STATUS(true) while not connected posts one
\* REQUEST_INITIAL_TOKENS, and every other message posts nothing; a
\* CONNECTION_STATUS(false) processed while connected sets the loading flag
\* and clears the received-initial-tokens flag, and both flags keep their
\* values until a BATCH_PROCESSED message is processed.
RequestOnConnect ==
    [][LET msg == lastMsg'
       IN /\ posted' = IF IsStatus(msg) /\ ~isConnected /\ msg.data.connected
                       THEN <<"REQUEST_INITIAL_TOKENS">> ELSE <<>>
          /\ IF IsStatus(msg) /\ isConnected /\ ~msg.data.connected
             THEN isLoading' /\ ~hasReceivedInitialTokens'
             ELSE msg.type # "BATCH_PROCESSED" =>
                     UNCHANGED <<isLoading, hasReceivedInitialTokens>>]_vars

\* a connection was reported while the application was not connected and
\* still loading, and the initial tokens were requested
RequestOnConnectWitness ==
    /\ IsStatus(lastMsg)
    /\ lastMsg.data.connected
    /\ ~prev.isConnected
    /\ posted = <<"REQUEST_INITIAL_TOKENS">>
    /\ isLoading
    /\ ~hasReceivedInitialTokens
    /\ connectionError = "null"
    /\ prev.same = FALSE

----------------------------------------------------------------------------
(* Scroll position and expansion set: claims *)

\* C22: when handleResize returns, the measured-height map is empty and the
\* scroll offset has not been written; and when its animation-frame callback
\* has run, the scroll offset is the one handleResize read, whatever callbacks
\* were pending before it and whatever was handled between the handler and
\* the frame (a scroll, a filter change). The offset is still that one when
\* the frame ends, unless a callback requested later has written it.
ResizeKeepsScroll ==
    /\ lastOp.name = "resize" => (measuredHeights = <<>> /\ scrollTop = lastOp.offset)
    /\ lastOp.name = "resized" =>
          /\ lastOp.restored = lastOp.offset
          /\ lastOp.later = 0 => scrollTop = lastOp.offset

\* the list was scrolled down with a measured row and a callback pending when
\* it was resized; a filter change wrote the offset before the animation frame, which
\* has run and has put back the offset the handler read
ResizeKeepsScrollWitness ==
    /\ lastOp.name = "resized"
    /\ lastOp.heights > 0
    /\ lastOp.offset > 0
    /\ lastOp.queued > 0
    /\ lastOp.later = 0
    /\ resetPending
    /\ scrollTop = lastOp.offset

\* C23 as claimed: immediately after updateFilters or handleResize no token
\* address is in the expansion set.
FilterOrResizeCollapsesAll ==
    lastOp.name \in {"updateFilters", "resize"} => expandedTokens = {}

\* C24: a toggle of an address flips the membership of that address in the
\* expansion set and leaves the membership of every other address as it was.
ToggleFlipsOne ==
    lastOp.name = "toggle" =>
        \A a \in lastOp.before \cup expandedTokens \cup {lastOp.address} :
            (a \in expandedTokens) <=>
                IF a = lastOp.address THEN a \notin lastOp.before
                ELSE a \in lastOp.before

\* a row was collapsed by its toggle while another row stayed expanded
ToggleFlipsOneWitness ==
    /\ lastOp.name = "toggle"
    /\ lastOp.address \in lastOp.before
    /\ lastOp.address \notin expandedTokens
    /\ expandedTokens # {}

\* C30 as claimed: a click on the expand/collapse-all button leaves the
\* expansion set empty when it was not empty (label Collapse All), and equal
\* to the addresses of the filtered sequence when it was empty (label
\* Expand All).
ExpandAllFollowsLabel ==
    lastOp.name = "expandAll" =>
        expandedTokens = IF lastOp.before # {} THEN {} ELSE rowAddresses(rows)

\* The same when an address of the filtered sequence was expanded, or none
ExpandAllFollowsRows ==
    (/\ lastOp.name = "expandAll"
     /\ (lastOp.before = {} \/ lastOp.before \cap rowAddresses(rows) # {})) =>
        expandedTokens = IF lastOp.before # {} THEN {} ELSE rowAddresses(rows)

----------------------------------------------------------------------------
(* History fetches in flight: claims *)

\* C26 as claimed: the fetches of the list that await their response are
\* for distinct addresses (no second fetch is started for an address whose
\* earlier fetch has not completed).
OneFetchPerAddress ==
    \A i, j \in 1..Len(listFetches) :
        i # j => listFetches[i].address # listFetches[j].address

----------------------------------------------------------------------------
(* Persisted FilterState: claims *)

\* the snapshot can be read as a complete FilterState
Usable(saved) == saved.kind = "json" /\ CompleteFilterState(saved.value)

\* all toggles off, thresholds 0, empty search, sortBy age, maxRecords 50
IsDefaults(f) ==
    /\ CompleteFilterState(f)
    /\ f.minHolders = 0 /\ f.minLiquidity = 0
    /\ ~f.hideHoneypots /\ ~f.showOnlyHoneypots /\ ~f.hideDanger /\ ~f.hideWarning
    /\ ~f.showOnlySafe /\ ~f.hideNotRenounced /\ ~f.hideUnlockedLiquidity
    /\ f.searchQuery = <<>>
    /\ f.sortBy = Age
    /\ f.maxRecords = 50

\* C25 as claimed: when the list has just been created and the snapshot is
\* missing or is not a complete FilterState, the FilterState is the
\* defaults; and when updateFilters has just run, the snapshot is the new
\* FilterState.
FiltersFromSnapshot ==
    /\ (lastOp.name = "mount" /\ ~Usable(savedFilters)) => IsDefaults(filters)
    /\ lastOp.name = "updateFilters" => savedFilters = stringify(filters)

\* The same when the snapshot is missing, empty or not JSON text
FiltersFromUnreadableSnapshot ==
    /\ (lastOp.name = "mount" /\ savedFilters.kind # "json") => IsDefaults(filters)
    /\ (lastOp.name = "mount" /\ Usable(savedFilters)) => filters = savedFilters.value
    /\ lastOp.name = "updateFilters" => savedFilters = stringify(filters)

----------------------------------------------------------------------------
(* throttle: claims *)

\* C28: any two consecutive invocations of func are at least wait
\* milliseconds apart, and at most one timer is pending.
ThrottleSpacing ==
    /\ throttle.gap # -1 => throttle.gap >= throttle.wait
    /\ Cardinality(throttle.timers) <= 1

\* a call invoked func at once, wait milliseconds or more after the
\* invocation before it
ThrottleSpacingWitness ==
    /\ throttle.op = "call"
    /\ throttle.ran
    /\ throttle.gap # -1
    /\ throttle.wait > 1

\* what holds after a call made with no timer pending and less than wait
\* after the reference time, after a timer callback and after cancel()
DeliversScheduled ==
    /\ (throttle.op = "call" /\ ~throttle.before.set /\ throttle.early) =>
          /\ ~throttle.ran
          /\ throttle.timeout.set
          /\ throttle.timeout.arg = throttle.arg
          /\ throttle.timers = {throttle.timeout}
    /\ throttle.op = "fire" =>
          /\ throttle.ran
          /\ throttle.ranArg = throttle.before.arg
    /\ throttle.op = "cancel" =>
          /\ throttle.timers = {}
          /\ ~throttle.timeout.set

\* C29 as claimed: a call made with no timer pending and less than wait
\* after the reference time invokes nothing and schedules one invocation with
\* its own arguments; a call made while a timer is pending schedules
\* nothing and its arguments do not reach func; a timer callback invokes func
\* with the arguments of the call that scheduled it; after cancel() no timer
\* is left to fire.
ThrottleDelivers ==
    /\ DeliversScheduled
    /\ (throttle.op = "call" /\ throttle.before.set) =>
          /\ ~throttle.ran
          /\ throttle.timeout = throttle.before

\* C29 amended: the same, for a call made while a timer is pending, when it
\* is made less than wait after the reference time; a call made wait or more
\* after the reference time clears the pending timer and invokes func at once
\* with its own arguments.
ThrottleDeliversInTime ==
    /\ DeliversScheduled
    /\ (throttle.op = "call" /\ throttle.before.set /\ throttle.early) =>
          /\ ~throttle.ran
          /\ throttle.timeout = throttle.before
    /\ (throttle.op = "call" /\ ~throttle.early) =>
          /\ throttle.ran
          /\ throttle.ranArg = throttle.arg
          /\ throttle.timers = {}

\* a second call was made while the timer of the first was pending and in
\* time: the timer still carries the arguments of the first
ThrottleDeliversInTimeWitness ==
    /\ throttle.op = "call"
    /\ throttle.before.set
    /\ throttle.early
    /\ throttle.timeout.set
    /\ throttle.timeout.arg # throttle.arg

====
